---- MODULE Spec2Model ----
(***************************************************************************)
(* Verification model of the temporal saturation-histogram grid generator  *)
(* (src/temporal_analysis_complete.py, class TemporalAnalysisGenerator).   *)
(*                                                                         *)
(* Conventions.  Python lists and numpy arrays are functions over 0..n-1,  *)
(* so every index is the index of the source.  A raw histogram value is a  *)
(* record [num, den, eps] standing for the real number                     *)
(*     num / (den + eps * 1e-6),   eps \in {0, 1};                         *)
(* eps = 1 is the value hist / (hist.sum() + 1e-6) of a histogram bin and  *)
(* eps = 0 a value handed to the renderer directly.                        *)
(***************************************************************************)
EXTENDS Integers, Sequences, FiniteSets, TLC

VARIABLES
    gen,      \* the generator object: the fields __init__ sets on self
    calls,    \* number of calls or user events so far
    first,    \* the first call: its operation, its input and its outcome
    last,     \* the most recent call
    editor,   \* the VideoSegmentEditor object (Video_segment_editor.py)
    gui,      \* the SmokeAnnotationGUI object (Binary_smoke_annotation_gui.py)
    disk,     \* the files the programs have written, by directory
    backend,  \* the AnnotationGUIBackend object
    folders   \* the two folders convertDataset.py works on

vars == <<gen, calls, first, last, editor, gui, disk, backend, folders>>

\* The objects other than the generator and its call record.
appVars == <<editor, gui, disk, backend, folders>>

(***************************************************************************)
(* Program constants                                                       *)
(***************************************************************************)
DEFAULT_FRAME_WIDTH == 1920
DEFAULT_FRAME_HEIGHT == 1080
DEFAULT_NUM_REGIONS == 9
DEFAULT_NUM_BINS == 32
DEFAULT_TEMPORAL_LENGTH == 64
DEFAULT_BRIGHTNESS_SCALE == 6
GRID_SIZE == 192
region_size == 64
UINT8_MAX == 255

(***************************************************************************)
(* Bounds of the model                                                     *)
(***************************************************************************)
ValueBits == 8          \* directly supplied raw values are k / 2^ValueBits
ShortRows == 40         \* a history or frame sequence shorter than temporal_length
ExtraRows == 6          \* rows or frames beyond temporal_length in a long input
MaxScale == 2           \* largest factor k of the scaled histories k * H
SmallWidth == 640       \* a frame resolution other than frame_size
SmallHeight == 480
SplitStep == 30         \* columns by which the two-tone boundary moves per frame
RampStep == 4           \* saturation added per frame in the ramp sequence
MaxCalls == 3           \* calls of generate_from_frames in one behaviour
MaxGridCalls == 2       \* calls of create_3x3_temporal_grid in one behaviour
MaxGenCalls == 3        \* constructor and query calls in one behaviour
MaxLabelSteps == 10     \* user events of the annotation tools in one behaviour
MaxTimers == 2          \* pending advanceToNextFrame timers
VideoFrames == 100      \* frame count of the video the editor loads
FirstFrame == 10        \* frame number of the folder's first frame file
FrameGap == 70          \* distance to a frame file outside the 64-frame range
MaxBackendCalls == 4    \* calls on the annotation backend in one behaviour
MaxSaves == 1           \* segments in the summary file before a saving call
UnreadableFrames == 5   \* frames the video reports but cannot deliver
SecondStart == 30       \* a segment start between 0 and the last valid one
MaxExisting == 2        \* characters of the existing text file
MaxNew == 3             \* characters of the new text file
MaxMerges == 2          \* merges of the same new file in one behaviour
MaxCombines == 1        \* runs of combine_folders in one behaviour
MaxEditorEvents == 4    \* user events of the segment editor in one behaviour
MaxLiveEvents == 3      \* user events of a viewing session checked for progress
ShortVideoFrames == 40  \* frame count of the video shorter than a segment
CanvasWidth == 360      \* width of the editor's timeline canvas in pixels
LongVideoFrames == 400  \* frame count of the video the timeline is dragged over
MaxDragEvents == 135    \* user events of a session that drags along the timeline
OddWidth == 1283        \* a frame size whose dimensions are no multiples of 10
OddHeight == 727
OtherRegions == 3       \* a num_regions argument other than 9
OtherBins == 64         \* a num_bins argument other than the default
OtherLength == 2        \* a temporal_length argument other than 64

ValueDen == 2 ^ ValueBits

Min(a, b) == IF a < b THEN a ELSE b
Max(a, b) == IF a > b THEN a ELSE b
Size(a) == Cardinality(DOMAIN a)

(***************************************************************************)
(* TemporalAnalysisGenerator.__init__                                      *)
(***************************************************************************)
Construct(frame_size, num_regions, num_bins, temporal_length, brightness_scale) ==
    [frame_size |-> frame_size,
     num_regions |-> num_regions,
     num_bins |-> num_bins,
     temporal_length |-> temporal_length,
     brightness_scale |-> brightness_scale]

DefaultGenerator ==
    Construct(<<DEFAULT_FRAME_WIDTH, DEFAULT_FRAME_HEIGHT>>, DEFAULT_NUM_REGIONS,
              DEFAULT_NUM_BINS, DEFAULT_TEMPORAL_LENGTH, DEFAULT_BRIGHTNESS_SCALE)

\* The arguments of a constructor call; DefaultArgs are those of a call
\* TemporalAnalysisGenerator() without arguments (lines 40-44).
DefaultArgs ==
    [frame_size |-> <<DEFAULT_FRAME_WIDTH, DEFAULT_FRAME_HEIGHT>>,
     num_regions |-> DEFAULT_NUM_REGIONS,
     num_bins |-> DEFAULT_NUM_BINS,
     temporal_length |-> DEFAULT_TEMPORAL_LENGTH,
     brightness_scale |-> DEFAULT_BRIGHTNESS_SCALE]

\* Mutant of NewGenerator: the validation of line 62 left out.
NewGeneratorUnchecked(args) ==
    [ok |-> TRUE,
     self |-> Construct(args.frame_size, args.num_regions, args.num_bins,
                        args.temporal_length, args.brightness_scale)]

\* TemporalAnalysisGenerator(...): the fields are assigned (lines 55-59), then
\* num_regions is validated (lines 62-63); a temporal_length other than 64
\* only logs a warning (lines 64-65).
NewGenerator(args) ==
    IF args.num_regions # 9
    THEN [ok |-> FALSE, error |-> "ValueError"]
    ELSE [ok |-> TRUE,
          self |-> Construct(args.frame_size, args.num_regions, args.num_bins,
                             args.temporal_length, args.brightness_scale)]

(***************************************************************************)
(* define_overlapping_regions (lines 69-102)                               *)
(***************************************************************************)
\* Mutant of Int04: the product rounded to nearest.
Int04Rounded(x) == (x * 4 + 5) \div 10

\* int(x * 0.4), int(x * 0.3), int(x * 0.6): the products are truncated.
Int04(x) == (x * 4) \div 10
Int03(x) == (x * 3) \div 10
Int06(x) == (x * 6) \div 10

DefineOverlappingRegions(g) ==
    LET frame_width == g.frame_size[1]
        frame_height == g.frame_size[2]
        region_width == Int04(frame_width)
        region_height == Int04(frame_height)
        x_positions == <<0, Int03(frame_width), Int06(frame_width)>>
        y_positions == <<0, Int03(frame_height), Int06(frame_height)>>
    IN  [i \in 0..8 |->
            LET row == i \div 3
                col == i % 3
                x_start == x_positions[col + 1]
                y_start == y_positions[row + 1]
            IN  [name |-> "R" \o ToString(row * 3 + col + 1),
                 bounds |-> <<x_start, y_start,
                              Min(x_start + region_width, frame_width),
                              Min(y_start + region_height, frame_height)>>,
                 row |-> row, col |-> col]]

(***************************************************************************)
(* Frames.  A frame is a width x height BGR image of two tones: columns    *)
(* x < split have colour left, the others colour right (a colour is        *)
(* <<B, G, R>>).  split = 0 is a frame of one colour.                      *)
(***************************************************************************)
Frame(width, height, split, left, right) ==
    [width |-> width, height |-> height, split |-> split, left |-> left, right |-> right]

\* cv2.resize(frame, self.frame_size), bilinear, of a frame of one colour: the
\* frame of that colour at the target size.  (The sequences below hold no
\* two-tone frame off the target size.)
Resize(frame, size) ==
    Frame(size[1], size[2], 0, frame.right, frame.right)

\* Lines 145-150: frame.shape[:2] is (height, width).
Standardize(g, frame) ==
    IF <<frame.height, frame.width>> # <<g.frame_size[2], g.frame_size[1]>>
    THEN Resize(frame, g.frame_size)
    ELSE frame

(***************************************************************************)
(* compute_saturation_histogram (lines 104-128)                            *)
(***************************************************************************)
\* The S channel of cv2.cvtColor(..., COLOR_BGR2HSV) for 8-bit pixels:
\* (diff * sdiv_table[v] + 2^11) >> 12 with sdiv_table[v] = round(255 * 2^12 / v).
SDiv(v) == (2 * UINT8_MAX * 4096 + v) \div (2 * v)

Saturation(c) ==
    LET v == Max(c[1], Max(c[2], c[3]))
        lo == Min(c[1], Min(c[2], c[3]))
    IN  IF v = 0 THEN 0 ELSE ((v - lo) * SDiv(v) + 2048) \div 4096

\* Mutant of BinOf: the bins numbered from the top of the range.
BinOfFromTop(g, s) == g.num_bins - 1 - ((s * g.num_bins) \div (UINT8_MAX + 1))

\* Mutant of BinOf: the last bin open on the right as the others are.
BinOfOpenRight(g, s) == (s * g.num_bins) \div UINT8_MAX

\* np.histogram(s / 255.0, bins=num_bins, range=(0, 1)): equal-width bins, the
\* last one closed on the right.
BinOf(g, s) ==
    IF s = UINT8_MAX THEN g.num_bins - 1 ELSE (s * g.num_bins) \div UINT8_MAX

\* Pixels of each tone in frame[y_start:y_end, x_start:x_end].
RegionCounts(frame, bounds) ==
    LET x0 == Min(Max(bounds[1], 0), frame.width)
        x1 == Min(Max(bounds[3], x0), frame.width)
        y0 == Min(Max(bounds[2], 0), frame.height)
        y1 == Min(Max(bounds[4], y0), frame.height)
        xs == Min(Max(frame.split, x0), x1)
    IN  [left |-> (xs - x0) * (y1 - y0), right |-> (x1 - xs) * (y1 - y0)]

\* hist / (hist.sum() + 1e-6); cvtColor raises on a region without pixels.
ComputeSaturationHistogram(g, frame, bounds) ==
    LET n == RegionCounts(frame, bounds)
        total == n.left + n.right
        bl == BinOf(g, Saturation(frame.left))
        br == BinOf(g, Saturation(frame.right))
    IN  IF total = 0 THEN [ok |-> FALSE, error |-> "cv2.error"]
        ELSE [ok |-> TRUE,
              hist |-> [b \in 0..(g.num_bins - 1) |->
                          [num |-> (IF b = bl THEN n.left ELSE 0)
                                   + (IF b = br THEN n.right ELSE 0),
                           den |-> total, eps |-> 1]]]

(***************************************************************************)
(* process_frame_sequence (lines 130-165)                                  *)
(***************************************************************************)
\* Mutant of ProcessFrameSequence: a length other than temporal_length is
\* rejected.
ProcessFrameSequenceStrict(g, frames) ==
    IF Size(frames) # g.temporal_length
    THEN [ok |-> FALSE, error |-> "ValueError"]
    ELSE [ok |-> TRUE,
          histories |-> [r \in 0..(g.num_regions - 1) |->
              [t \in DOMAIN frames |->
                  ComputeSaturationHistogram(g, Standardize(g, frames[t]),
                      DefineOverlappingRegions(g)[r].bounds).hist]]]

ProcessFrameSequence(g, frames) ==
    LET regions == DefineOverlappingRegions(g)
        hist(t, r) == ComputeSaturationHistogram(g, Standardize(g, frames[t]),
                                                 regions[r].bounds)
    IN  IF \E t \in DOMAIN frames : \E r \in DOMAIN regions : ~hist(t, r).ok
        THEN [ok |-> FALSE, error |-> "cv2.error"]
        ELSE [ok |-> TRUE,
              histories |-> [r \in 0..(g.num_regions - 1) |->
                               [t \in DOMAIN frames |-> hist(t, r).hist]]]

(***************************************************************************)
(* create_3x3_temporal_grid (lines 167-221)                                *)
(***************************************************************************)
\* Mutant of ScaleToByte: the product truncated without np.clip.
ScaleToByteNoClip(gain, v) ==
    (v.num * gain * UINT8_MAX) \div v.den

\* np.clip(v * brightness_scale * 255, 0, 255).astype(np.uint8) of one value:
\* the clipped product, truncated.
ScaleToByte(gain, v) ==
    LET m == v.num * gain * UINT8_MAX
    IN  IF m <= 0 THEN 0
        ELSE IF v.eps = 0
             THEN IF m >= UINT8_MAX * v.den THEN UINT8_MAX ELSE m \div v.den
             ELSE IF m > UINT8_MAX * v.den THEN UINT8_MAX
                  ELSE IF m % v.den = 0 THEN (m \div v.den) - 1
                  ELSE m \div v.den

\* np.array(region_history): "empty" is the 1-D array of shape (0,), "matrix"
\* a 2-D array, "ragged" rows of different lengths (no numeric 2-D array).
ArrayKind(h) ==
    IF Size(h) = 0 THEN "empty"
    ELSE IF \A t \in DOMAIN h : Size(h[t]) = Size(h[0]) THEN "matrix"
    ELSE "ragged"

\* Mutant of RegionGain: a gain shared across the grid, lowered for region i
\* when another region starts brighter.
RegionGainShared(g, region_histories, i) ==
    IF \E j \in DOMAIN region_histories :
          /\ Size(region_histories[j]) > 0 /\ Size(region_histories[i]) > 0
          /\ region_histories[j][0][0].num > region_histories[i][0][0].num
    THEN 1
    ELSE g.brightness_scale

\* The factor applied to region i's values: self.brightness_scale (line 202).
RegionGain(g, region_histories, i) == g.brightness_scale

RegionScaled(gain, h) ==
    [t \in DOMAIN h |->
        LET row == h[t]
        IN  [b \in DOMAIN row |-> ScaleToByte(gain, row[b])]]

\* Mutant of RegionPadded: the last temporal_length rows of a long history.
RegionPaddedTail(g, scaled) ==
    LET rows == Size(scaled)
        cols == Size(scaled[0])
    IN  IF rows < g.temporal_length
        THEN [t \in 0..(g.temporal_length - 1) |->
                 IF t < rows THEN scaled[t] ELSE [b \in 0..(cols - 1) |-> 0]]
        ELSE [t \in 0..(g.temporal_length - 1) |-> scaled[rows - g.temporal_length + t]]

\* Lines 205-211: zero rows appended up to temporal_length, or the first
\* temporal_length rows.
RegionPadded(g, scaled) ==
    LET rows == Size(scaled)
        cols == Size(scaled[0])
    IN  IF rows < g.temporal_length
        THEN [t \in 0..(g.temporal_length - 1) |->
                 IF t < rows THEN scaled[t] ELSE [b \in 0..(cols - 1) |-> 0]]
        ELSE [t \in 0..(g.temporal_length - 1) |-> scaled[t]]

\* cv2.resize(m, (region_size, region_size), interpolation=cv2.INTER_NEAREST):
\* destination index d reads source index floor(d * src / region_size).
NearestIndex(d, src) == Min((d * src) \div region_size, src - 1)

\* Mutant of RegionResized: the columns kept in place and zero-padded on the
\* right, the rows taken as they are.
RegionColumnsPadded(padded) ==
    [y \in 0..(region_size - 1) |->
        [x \in 0..(region_size - 1) |->
            IF x < Size(padded[0]) THEN padded[Min(y, Size(padded) - 1)][x] ELSE 0]]

RegionResized(padded) ==
    LET rows == Size(padded)
        cols == Size(padded[0])
    IN  [y \in 0..(region_size - 1) |->
            LET line == padded[NearestIndex(y, rows)]
            IN  [x \in 0..(region_size - 1) |-> line[NearestIndex(x, cols)]]]

\* The body of the loop for region i (lines 200-215): the 64x64 block, or the
\* exception that leaves the loop and the call.
RegionBlock(g, region_histories, i) ==
    LET h == region_histories[i]
        kind == ArrayKind(h)
    IN  IF kind = "ragged" THEN [ok |-> FALSE, error |-> "ValueError"]
        ELSE IF kind = "empty" THEN [ok |-> FALSE, error |-> "IndexError"]
        ELSE IF Size(h[0]) = 0 THEN [ok |-> FALSE, error |-> "cv2.error"]
        ELSE [ok |-> TRUE,
              block |-> RegionResized(RegionPadded(g,
                            RegionScaled(RegionGain(g, region_histories, i), h)))]

ZeroImage == [y \in 0..(GRID_SIZE - 1) |-> [x \in 0..(GRID_SIZE - 1) |-> 0]]

\* Mutant of PlaceBlock: the grid filled from the bottom right, region i in
\* the area of region 8 - i.
PlaceBlockMirrored(img, i, block) ==
    [y \in 0..(GRID_SIZE - 1) |->
        [x \in 0..(GRID_SIZE - 1) |->
            IF y \div region_size = (8 - i) \div 3 /\ x \div region_size = (8 - i) % 3
            THEN block[y % region_size][x % region_size]
            ELSE img[y][x]]]

\* output_image[y_start:y_end, x_start:x_end] = region_resized (lines 191-218)
PlaceBlock(img, i, block) ==
    LET y_start == (i \div 3) * region_size
        x_start == (i % 3) * region_size
    IN  [y \in 0..(GRID_SIZE - 1) |->
            IF y < y_start \/ y >= y_start + region_size THEN img[y]
            ELSE LET old == img[y]
                     new == block[y - y_start]
                 IN  [x \in 0..(GRID_SIZE - 1) |->
                         IF x < x_start \/ x >= x_start + region_size THEN old[x]
                         ELSE new[x - x_start]]]

\* The loop of line 189: an exception in one region ends the call; a tenth
\* history has no place in the 192x192 image.
RECURSIVE GridLoop(_, _, _, _)
GridLoop(g, region_histories, i, img) ==
    IF i >= Size(region_histories) THEN [ok |-> TRUE, image |-> img]
    ELSE LET r == RegionBlock(g, region_histories, i)
         IN  IF ~r.ok THEN r
             ELSE IF i >= 9 THEN [ok |-> FALSE, error |-> "ValueError"]
             ELSE GridLoop(g, region_histories, i + 1, PlaceBlock(img, i, r.block))

Create3x3TemporalGrid(g, region_histories) ==
    GridLoop(g, region_histories, 0, ZeroImage)

(***************************************************************************)
(* generate_from_frames (lines 266-287): any exception is logged and       *)
(* raised again.                                                           *)
(***************************************************************************)
GenerateFromFrames(g, frames) ==
    LET p == ProcessFrameSequence(g, frames)
    IN  IF ~p.ok THEN p ELSE Create3x3TemporalGrid(g, p.histories)

\* Mutant of SelfAfterCall: the generator adopts the length of the last input.
SelfAdaptsToInput(g, input) ==
    [g EXCEPT !.temporal_length = IF input.n > 0 THEN input.n ELSE @]

\* The generator after a call: no method of lines 69-287 assigns to self.
SelfAfterCall(g, input) == g

(***************************************************************************)
(* Inputs of the renderer: families of region histories                    *)
(***************************************************************************)
PatternTable == <<0, 3, 17, 40, -2, 60>>

\* The numerator of cell (t, b) of pattern p: 0 and 1 are the constant
\* matrices 0 and 1/ValueDen, 4 the constant 1/4, 2 and 3 are mixed.
PatternNum(p, t, b) ==
    CASE p = 0 -> 0
      [] p = 1 -> 1
      [] p = 2 -> PatternTable[((t + 2 * b) % Len(PatternTable)) + 1]
      [] p = 3 -> PatternTable[((3 * t + b) % Len(PatternTable)) + 1]
      [] OTHER -> ValueDen \div 4

\* A history descriptor d: n rows of width w; row d.bad (if any) is one entry
\* longer; cells are k * pattern p in the first temporal_length rows and
\* k * pattern tail in the rows after them.
Desc(n, w, bad, p, k, tail) ==
    [n |-> n, w |-> w, bad |-> bad, p |-> p, k |-> k, tail |-> tail]

HistoryOf(g, d) ==
    [t \in 0..(d.n - 1) |->
        [b \in 0..((IF t = d.bad THEN d.w + 1 ELSE d.w) - 1) |->
            [num |-> d.k * PatternNum(IF t < g.temporal_length THEN d.p ELSE d.tail, t, b),
             den |-> ValueDen, eps |-> 0]]]

\* Histories of region 4: a mixed matrix and its multiples, longer and shorter
\* ones, one with a wrong-length row, an empty one, one of num_bins + 1 columns.
OwnDescs(g) ==
    LET T == g.temporal_length
        W == g.num_bins
    IN  {Desc(T, W, -1, 2, k, 2) : k \in 1..MaxScale}
        \cup {Desc(T + ExtraRows, W, -1, 2, 1, tail) : tail \in {2, 3}}
        \cup {Desc(ShortRows, W, -1, 2, 1, 2), Desc(T, W, 1, 2, 1, 2), Desc(0, W, -1, 0, 1, 0),
              Desc(T, W + 1, -1, 2, 1, 2)}

\* A renderer input: region r has the history own, the other regions others.
GridInputs(g) ==
    LET T == g.temporal_length
        W == g.num_bins
        o1 == Desc(T, W, -1, 3, 1, 3)
        o2 == Desc(T, W, -1, 1, 1, 1)
    IN  {[others |-> o1, r |-> 4, own |-> d] : d \in OwnDescs(g)}
        \cup {[others |-> o1, r |-> 0, own |-> Desc(T, W, -1, p, 1, p)] : p \in {0, 1, 4}}
        \cup {[others |-> o2, r |-> 4, own |-> Desc(T, W, -1, 2, 1, 2)]}

HistoriesOf(g, in) ==
    [i \in 0..(g.num_regions - 1) |-> HistoryOf(g, IF i = in.r THEN in.own ELSE in.others)]

(***************************************************************************)
(* Inputs of generate_from_frames: families of frame sequences             *)
(***************************************************************************)
Black == <<0, 0, 0>>
Grey == <<128, 128, 128>>
Red == <<0, 0, 255>>

\* Frame t of the sequence d: all black; one colour whose saturation grows by
\* RampStep per frame; or red left of a boundary that moves right, grey after.
FrameAt(d, t) ==
    CASE d.look = "black" -> Frame(d.width, d.height, 0, Black, Black)
      [] d.look = "ramp" ->
            LET s == Min(UINT8_MAX, RampStep * t)
                c == <<UINT8_MAX - s, UINT8_MAX - s, UINT8_MAX>>
            IN  Frame(d.width, d.height, 0, c, c)
      [] OTHER -> Frame(d.width, d.height, Min(d.width, SplitStep * t), Red, Grey)

FramesOf(d) == [t \in 0..(d.n - 1) |-> FrameAt(d, t)]

SeqDesc(n, width, height, look) ==
    [n |-> n, width |-> width, height |-> height, look |-> look]

FrameInputs(g) ==
    LET T == g.temporal_length
        W == g.frame_size[1]
        H == g.frame_size[2]
    IN  {SeqDesc(n, W, H, "split") : n \in {ShortRows, T, T + ExtraRows}}
        \cup {SeqDesc(T, SmallWidth, SmallHeight, look) : look \in {"black", "ramp"}}
        \cup {SeqDesc(T, W, H, "black"), SeqDesc(T, 1, 1, "ramp"),
              SeqDesc(1, SmallWidth, SmallHeight, "ramp"), SeqDesc(0, W, H, "black")}

(***************************************************************************)
(* Files.  A directory is a function from file keys to contents; a text    *)
(* file is the sequence of its lines, a line the sequence of its tokens.   *)
(***************************************************************************)
EmptyMap == [k \in {} |-> 0]

Put(f, k, v) == [x \in (DOMAIN f) \cup {k} |-> IF x = k THEN v ELSE f[x]]

EmptyDisk ==
    [videos |-> {}, images |-> EmptyMap, fallback_images |-> EmptyMap,
     labels |-> EmptyMap, summary |-> EmptyMap, classes |-> <<>>,
     auto_save |-> EmptyMap, yolo |-> EmptyMap,
     temporal_analysis |-> EmptyMap, metadata |-> EmptyMap, segments_summary |-> EmptyMap,
     image_metadata |-> EmptyMap, batch_processing |-> EmptyMap]

(***************************************************************************)
(* VideoSegmentEditor (src/Video_segment_editor.py): segment position,     *)
(* the watched flag and the annotation writer.  Playback itself is the     *)
(* single step that ends it, _handle_playback_finished.                    *)
(***************************************************************************)
SEGMENT_LENGTH == 64
SMALL_MOVE == 32
MEDIUM_MOVE == 64
LARGE_MOVE == 640
TIMELINE_LEFT == 80

VideoFile == "video33.mp4"

\* _init_video_properties, _init_segment_properties, _init_annotation_properties
\* with no summary file to load ("None" is Python's None).
NewEditor ==
    [currentVideoFile |-> "None",
     totalFrames |-> 0,
     segmentStart |-> 0,
     segmentEnd |-> SEGMENT_LENGTH - 1,
     segmentLength |-> SEGMENT_LENGTH,
     segmentWatched |-> FALSE,
     annotations |-> EmptyMap]

\* loadVideo(filename) for a file that opens: _initialize_video_properties and
\* _reset_segment_state.
LoadVideo(e, filename, total) ==
    [e EXCEPT !.currentVideoFile = filename,
              !.totalFrames = total,
              !.segmentStart = 0,
              !.segmentEnd = Min(SEGMENT_LENGTH - 1, total - 1),
              !.segmentWatched = FALSE]

UpdateSegmentPosition(e, new_start) ==
    [e EXCEPT !.segmentStart = new_start,
              !.segmentEnd = Min(new_start + e.segmentLength - 1, e.totalFrames - 1),
              !.segmentWatched = FALSE]

\* moveSegment(frames, direction): nothing without a video.
MoveSegment(e, frames, direction) ==
    IF e.currentVideoFile = "None" THEN e
    ELSE UpdateSegmentPosition(e,
            IF direction = "forward"
            THEN Min(e.segmentStart + frames, e.totalFrames - e.segmentLength)
            ELSE Max(0, e.segmentStart - frames))

(***************************************************************************)
(* int((click_x / timeline_width) * totalFrames), lines 1492-1498, in the  *)
(* double arithmetic of Python, for 0 <= click_x <= timeline_width.  The   *)
(* quotient is rounded to 53 significant bits, the product again.  When    *)
(* click_x * totalFrames is no multiple of timeline_width the result is    *)
(* the floor of the exact value; when it is a multiple, k times, the       *)
(* result is k - 1 if the quotient was rounded down by more than the       *)
(* product's rounding recovers, and k otherwise.                           *)
(***************************************************************************)
RECURSIVE Pow2Mod(_, _)
Pow2Mod(s, b) == IF s = 0 THEN 1 % b ELSE (2 * Pow2Mod(s - 1, b)) % b

\* The least u with a * 2^u >= b: the quotient a / b lies in [2^-u, 2^(1-u)).
QuotientExponent(a, b) ==
    CHOOSE u \in 0..20 : a * 2^u >= b /\ (u = 0 \/ a * 2^(u - 1) < b)

\* The t with 2^t <= k < 2^(t+1).
FloorLog2(k) ==
    CHOOSE t \in 0..29 : 2^t <= k /\ k < 2^(t + 1)

ClickRatioTimes(click_x, timeline_width, total_frames) ==
    LET exact == (click_x * total_frames) \div timeline_width
    IN  IF (click_x * total_frames) % timeline_width # 0 \/ exact = 0 THEN exact
        ELSE LET u == QuotientExponent(click_x, timeline_width)
                 \* the remainder of click_x * 2^(52+u) by timeline_width:
                 \* 0 when the quotient is a double, below half when it
                 \* is rounded down
                 r == (click_x * Pow2Mod(52 + u, timeline_width)) % timeline_width
                 t == FloorLog2(exact)
                 gap == u + t - 1 - (IF exact = 2^t THEN 1 ELSE 0)
             IN  IF r = 0 \/ 2 * r > timeline_width THEN exact
                 ELSE IF gap >= 20 THEN exact
                 ELSE IF gap < 0
                      THEN (IF r * total_frames * 2^(0 - gap) <= timeline_width
                            THEN exact ELSE exact - 1)
                      ELSE (IF r * total_frames <= timeline_width * 2^gap
                            THEN exact ELSE exact - 1)

\* The segment start a click at event.x = x asks for, <<>> when the handler
\* returns before it computes one (lines 1476-1499).
ClickedStart(e, canvas_width, x) ==
    LET timeline_width == canvas_width - 2 * TIMELINE_LEFT
        click_x == x - TIMELINE_LEFT
    IN  IF canvas_width <= 1 THEN <<>>
        ELSE IF click_x < 0 \/ click_x > timeline_width THEN <<>>
        ELSE <<Max(0, Min(ClickRatioTimes(click_x, timeline_width, e.totalFrames),
                          e.totalFrames - e.segmentLength))>>

\* event.x of the clicks: left of the timeline, 58 pixels into it (where the
\* quotient 58 / 200 is rounded down and int() gives 28 of 100 frames, not
\* 29), its end.
ClickXs ==
    {TIMELINE_LEFT - 1,
     TIMELINE_LEFT + 58,
     CanvasWidth - TIMELINE_LEFT}

\* The segment position onTimelineClick leaves (lines 1465-1512).
OnTimelineClickPosition(e, canvas_width, x) ==
    IF e.currentVideoFile = "None" THEN e
    ELSE LET new_start == ClickedStart(e, canvas_width, x)
         IN  IF new_start = <<>> THEN e
             ELSE UpdateSegmentPosition(e, new_start[1])

\* The segment position _jumpToSegment leaves for a video file that exists
\* (lines 1128-1145).
JumpToSegmentPosition(e, video_file, total, annotation) ==
    LET loaded == IF e.currentVideoFile # video_file
                  THEN LoadVideo(e, video_file, total) ELSE e
    IN  [loaded EXCEPT !.segmentStart = annotation.start_frame,
                       !.segmentEnd = annotation.end_frame,
                       !.segmentWatched = FALSE]

\* f"frames_{segmentStart:06d}_{segmentEnd:06d}" and its video-name prefix.
SegmentKey(e) == <<e.segmentStart, e.segmentEnd>>
UniqueSegmentKey(e) == <<e.currentVideoFile, e.segmentStart, e.segmentEnd>>

\* Mutant of EditorLabelLine: the class ids exchanged.
EditorLabelLineSwapped(has_smoke) ==
    <<IF has_smoke THEN "1" ELSE "0", "0.5", "0.5", "1.0", "1.0">>

\* Lines 2115-2118: "0 0.5 0.5 1.0 1.0" for smoke, "1 0.5 0.5 1.0 1.0" otherwise.
EditorLabelLine(has_smoke) ==
    <<IF has_smoke THEN "0" ELSE "1", "0.5", "0.5", "1.0", "1.0">>

\* saveAnnotation(has_smoke), lines 2063-2082: the entry stored in
\* self.annotations[currentVideoFile][segment_key].
SaveAnnotation(e, has_smoke) ==
    LET video == e.currentVideoFile
        mine == IF video \in DOMAIN e.annotations THEN e.annotations[video] ELSE EmptyMap
    IN  [e EXCEPT !.annotations =
            Put(@, video, Put(mine, SegmentKey(e),
                              [start_frame |-> e.segmentStart,
                               end_frame |-> e.segmentEnd,
                               has_smoke |-> has_smoke]))]

\* videoCap.set(cv2.CAP_PROP_POS_FRAMES, n); ret, frame = videoCap.read()
ReadSucceeds(e, frame_number) ==
    /\ e.videoCap = "open"
    /\ frame_number < e.totalFrames
    /\ frame_number < 0 => e.seeksBelowZero

\* A read of the video while an annotation is saved.  The editor of the
\* annotation tools' state machine keeps no capture and no cache: its video
\* is open and gives the frames 0 .. totalFrames - 1.
FrameReads(e, frame_num) ==
    IF "videoCap" \in DOMAIN e THEN ReadSucceeds(e, frame_num)
    ELSE 0 <= frame_num /\ frame_num < e.totalFrames

\* Lines 2279-2285: the frame comes from frameCache or from a read.
SegmentFrameLoads(e, frame_num) ==
    \/ "frameCache" \in DOMAIN e /\ frame_num \in e.frameCache
    \/ FrameReads(e, frame_num)

\* saveSegmentTemporalAnalysis, lines 2270-2313, with saveSegmentFrame, lines
\* 2315-2330: which file the call leaves in the images directory.  A frame
\* that cannot be read is replaced by the frame before it; when it is the
\* first of the segment the method returns without an image.  An exception
\* (generate_from_frames on no frame at all, a read without a capture) makes
\* the end frame of the segment the image <key>_fallback.png, if it can be read.
SaveSegmentTemporalAnalysis(e, start_frame, end_frame) ==
    LET no_capture == "videoCap" \in DOMAIN e /\ e.videoCap = "None"
        uncached == {f \in start_frame..end_frame : f \notin e.frameCache}
    IN  IF no_capture /\ uncached # {} THEN "none"
        ELSE IF start_frame > end_frame
             THEN (IF FrameReads(e, end_frame) THEN "fallback" ELSE "none")
        ELSE IF SegmentFrameLoads(e, start_frame) THEN "image"
        ELSE "none"

\* saveCurrentSegmentOnly, lines 2089-2133: the temporal analysis image of
\* the segment (here the frame range it is generated from) or the fallback
\* image, the label file, the summary with the current video's annotations
\* and the class names.
SaveCurrentSegmentOnly(d, e, has_smoke) ==
    LET saved == SaveSegmentTemporalAnalysis(e, e.segmentStart, e.segmentEnd)
    IN
    [d EXCEPT !.images = IF saved = "image"
                         THEN Put(@, UniqueSegmentKey(e),
                                  [start_frame |-> e.segmentStart,
                                   end_frame |-> e.segmentEnd])
                         ELSE @,
              !.fallback_images = IF saved = "fallback"
                                  THEN Put(@, UniqueSegmentKey(e), e.segmentEnd)
                                  ELSE @,
              !.labels = Put(@, UniqueSegmentKey(e), <<EditorLabelLine(has_smoke)>>),
              !.summary = Put(@, e.currentVideoFile, e.annotations[e.currentVideoFile]),
              !.classes = IF @ = <<>> THEN <<"smoke", "no_smoke">> ELSE @]

\* saveAnnotationsToFile, lines 2161-2266, a public method without a caller
\* inside the program: for every annotation of the current video the image
\* and the label file; the class names, written anew; the summary is read
\* and updated in memory and never written back.
SaveAnnotationsToFile(d, e) ==
    LET video == e.currentVideoFile
        mine == IF video \in DOMAIN e.annotations THEN e.annotations[video] ELSE EmptyMap
        Name(key) == <<video, key[1], key[2]>>
        Saved(key) == SaveSegmentTemporalAnalysis(e, mine[key].start_frame,
                                                  mine[key].end_frame)
        images == {key \in DOMAIN mine : Saved(key) = "image"}
        fallbacks == {key \in DOMAIN mine : Saved(key) = "fallback"}
    IN  [d EXCEPT
           !.images = [x \in (DOMAIN @) \cup {Name(key) : key \in images} |->
                          IF <<x[2], x[3]>> \in images /\ x[1] = video
                          THEN [start_frame |-> mine[<<x[2], x[3]>>].start_frame,
                                end_frame |-> mine[<<x[2], x[3]>>].end_frame]
                          ELSE @[x]],
           !.fallback_images = [x \in (DOMAIN @) \cup {Name(key) : key \in fallbacks} |->
                                   IF <<x[2], x[3]>> \in fallbacks /\ x[1] = video
                                   THEN mine[<<x[2], x[3]>>].end_frame
                                   ELSE @[x]],
           !.labels = [x \in (DOMAIN @) \cup {Name(key) : key \in DOMAIN mine} |->
                          IF <<x[2], x[3]>> \in DOMAIN mine /\ x[1] = video
                          THEN <<EditorLabelLine(mine[<<x[2], x[3]>>].has_smoke)>>
                          ELSE @[x]],
           !.classes = <<"smoke", "no_smoke">>]

(***************************************************************************)
(* SmokeAnnotationGUI (src/Binary_smoke_annotation_gui.py): annotation of  *)
(* the frames of the mini-video folders.  frameFiles holds the frame       *)
(* numbers of the file names Frame_<number>_<...>.jpg; frameAnnotations is *)
(* the dict in insertion order, a sequence of [frame, hasSmoke].           *)
(***************************************************************************)
MinivideoFolder == "mini_video_1"

SecondMinivideoFolder == "mini_video_2"

\* The mini_video* folders of the video folder, sorted by their number
\* (loadMinivideos, lines 348-357).
MinivideoFolders == <<MinivideoFolder, SecondMinivideoFolder>>

\* The frame numbers of the folder's image files, sorted (loadFrameFiles).
FolderFrames == <<FirstFrame, FirstFrame + 1, FirstFrame + FrameGap>>

\* The frame numbers of the second folder's image files.
SecondFolderFrames == <<FirstFrame + FirstFrame, FirstFrame + FirstFrame + 1>>

\* glob of the image files of a folder, sorted
FramesOfFolder(folder) ==
    IF folder = MinivideoFolder THEN FolderFrames
    ELSE IF folder = SecondMinivideoFolder THEN SecondFolderFrames
    ELSE <<>>

NewGui ==
    [minivideoFolders |-> <<>>,
     currentMinivideoIndex |-> 0,
     currentMinivideoFolder |-> "None",
     frameFiles |-> <<>>,
     currentFrameIndex |-> 0,
     workflowState |-> "videoReview",
     frameAnnotations |-> <<>>,
     timers |-> 0,
     dialog |-> "None"]

\* frameName in self.frameAnnotations
Annotated(annots, frame) == \E i \in DOMAIN annots : annots[i].frame = frame

\* self.frameAnnotations[frameName] = hasSmoke
SetAnnotation(annots, frame, hasSmoke) ==
    IF Annotated(annots, frame)
    THEN [i \in DOMAIN annots |->
             IF annots[i].frame = frame THEN [frame |-> frame, hasSmoke |-> hasSmoke]
             ELSE annots[i]]
    ELSE Append(annots, [frame |-> frame, hasSmoke |-> hasSmoke])

\* frameFiles[i] for the 0-based index i.
FrameFile(g, i) == g.frameFiles[i + 1]

IsCurrentFrameAnnotated(g) ==
    /\ Len(g.frameFiles) > 0
    /\ Annotated(g.frameAnnotations, FrameFile(g, g.currentFrameIndex))

\* findFirstUnannotatedFrame: 0 when every frame is annotated.
FindFirstUnannotatedFrame(g) ==
    LET open == {i \in 0..(Len(g.frameFiles) - 1) :
                    ~Annotated(g.frameAnnotations, FrameFile(g, i))}
    IN  IF open = {} THEN 0 ELSE CHOOSE i \in open : \A j \in open : i <= j

\* getFrameNumberFromFilename: the frame number relative to the smallest one
\* of the folder.
GetFrameNumberFromFilename(g, frame) ==
    LET numbers == {g.frameFiles[i] : i \in DOMAIN g.frameFiles}
    IN  frame - (CHOOSE m \in numbers : \A n \in numbers : m <= n)

\* f"{x:.6f}" of the quotient num / den: six decimals, ties to even.
Micro(num, den) ==
    LET q == (1000000 * num) \div den
        r == (1000000 * num) % den
    IN  IF 2 * r > den \/ (2 * r = den /\ q % 2 = 1) THEN q + 1 ELSE q

Fixed6(num, den) ==
    LET u == Micro(num, den)
        f == u % 1000000
        zeros == IF f < 10 THEN "00000" ELSE IF f < 100 THEN "0000"
                 ELSE IF f < 1000 THEN "000" ELSE IF f < 10000 THEN "00"
                 ELSE IF f < 100000 THEN "0" ELSE ""
    IN  ToString(u \div 1000000) \o "." \o zeros \o ToString(f)

\* Line 1100: classId = 0 if hasSmoke else 1.
ClassId(hasSmoke) == IF hasSmoke THEN 0 ELSE 1

\* Lines 1102-1110: the nine lines of the frame with relative number n, one
\* per region, each a box one pixel high and one region wide.
FrameLines(classId, n) ==
    [k \in 1..9 |->
        LET regionRow == (k - 1) \div 3
            regionCol == (k - 1) % 3
        IN  <<ToString(classId),
              Fixed6(2 * (regionCol * 64) + 64, 2 * 192),
              Fixed6(2 * (regionRow * 64 + n) + 1, 2 * 192),
              Fixed6(64, 192),
              Fixed6(1, 192)>>]

\* saveYoloAnnotations, the loop of line 1093 from entry i on: frames whose
\* relative number is outside 0..63 are skipped.
RECURSIVE YoloLines(_, _)
YoloLines(g, i) ==
    IF i > Len(g.frameAnnotations) THEN <<>>
    ELSE LET a == g.frameAnnotations[i]
             n == GetFrameNumberFromFilename(g, a.frame)
         IN  (IF 0 <= n /\ n < 64 THEN FrameLines(ClassId(a.hasSmoke), n) ELSE <<>>)
             \o YoloLines(g, i + 1)

\* autoSave: the JSON backup of frameAnnotations and, when there is an
\* annotation, the YOLO file of the folder.
AutoSave(d, g) ==
    IF g.currentMinivideoFolder = "None" THEN d
    ELSE [d EXCEPT !.auto_save = Put(@, g.currentMinivideoFolder, g.frameAnnotations),
                   !.yolo = IF Len(g.frameAnnotations) > 0
                            THEN Put(@, g.currentMinivideoFolder, YoloLines(g, 1))
                            ELSE @]

\* loadExistingAnnotations: the frame_annotations of the backup, if there is one.
LoadExistingAnnotations(d, g) ==
    IF g.currentMinivideoFolder \in DOMAIN d.auto_save
    THEN [g EXCEPT !.frameAnnotations = d.auto_save[g.currentMinivideoFolder]]
    ELSE g

\* setVideoReviewMode
SetVideoReviewMode(g) == [g EXCEPT !.workflowState = "videoReview"]

\* loadFrameFiles, lines 392-410: the folder's images, sorted, and the
\* backup; with no folder chosen the glob raises after frameFiles = [].
LoadFrameFiles(d, g) ==
    IF g.currentMinivideoFolder = "None" THEN [g EXCEPT !.frameFiles = <<>>]
    ELSE LoadExistingAnnotations(d,
            [g EXCEPT !.frameFiles = FramesOfFolder(g.currentMinivideoFolder)])

\* setFrameAnnotationMode, lines 566-581: with frame files the index goes to
\* the first unannotated frame, without any it stays as it is.
SetFrameAnnotationMode(d, g) ==
    LET g2 == LoadFrameFiles(d, [g EXCEPT !.workflowState = "frameAnnotation"])
    IN  IF Len(g2.frameFiles) > 0
        THEN [g2 EXCEPT !.currentFrameIndex = FindFirstUnannotatedFrame(g2)]
        ELSE g2

\* loadFrames(folderPath), lines 367-390.  A folder that holds <name>.mp4 is
\* opened in video review (startVideoReview, lines 749-759), which leaves
\* frameFiles and currentFrameIndex as the folder before left them; a folder
\* without one goes straight into setFrameAnnotationMode.
LoadFrames(d, g, folderPath) ==
    LET g1 == LoadExistingAnnotations(d, [g EXCEPT !.currentMinivideoFolder = folderPath,
                                                   !.frameAnnotations = <<>>])
    IN  IF folderPath \in d.videos THEN SetVideoReviewMode(g1)
        ELSE SetFrameAnnotationMode(d, g1)

\* isCurrentMinivideoFullyAnnotated, lines 968-995
IsCurrentMinivideoFullyAnnotated(g) ==
    LET allFrameFiles == FramesOfFolder(g.currentMinivideoFolder)
    IN  IF g.currentMinivideoFolder = "None" THEN FALSE
        ELSE IF Len(allFrameFiles) = 0 THEN TRUE
        ELSE /\ \A i \in DOMAIN allFrameFiles :
                   Annotated(g.frameAnnotations, allFrameFiles[i])
             /\ Len(g.frameAnnotations) >= Len(allFrameFiles)

\* findFirstIncompleteMinivideo, lines 1117-1138: each folder is judged by
\* its backup; 0 when all are complete.
FindFirstIncompleteMinivideo(d, g) ==
    LET incomplete ==
            {i \in 0..(Len(g.minivideoFolders) - 1) :
                ~IsCurrentMinivideoFullyAnnotated(
                    LoadExistingAnnotations(d,
                        [g EXCEPT !.currentMinivideoFolder = g.minivideoFolders[i + 1],
                                  !.frameAnnotations = <<>>]))}
    IN  IF incomplete = {} THEN 0
        ELSE CHOOSE i \in incomplete : \A j \in incomplete : i <= j

\* loadMinivideos(videoFolderPath), lines 342-365
LoadMinivideos(d, g) ==
    LET listed == [g EXCEPT !.minivideoFolders = MinivideoFolders]
        index == FindFirstIncompleteMinivideo(d, listed)
    IN  LoadFrames(d, [listed EXCEPT !.currentMinivideoIndex = index],
                   listed.minivideoFolders[index + 1])

\* previousMinivideo, lines 502-509
PreviousMinivideo(d, g) ==
    IF Len(g.minivideoFolders) > 0 /\ g.currentMinivideoIndex > 0
    THEN LoadFrames(d, [g EXCEPT !.currentMinivideoIndex = @ - 1,
                                 !.workflowState = "videoReview"],
                    g.minivideoFolders[g.currentMinivideoIndex])
    ELSE g

\* nextMinivideo, lines 511-525: refused with a warning until the current
\* mini-video is fully annotated.
NextMinivideo(d, g) ==
    IF /\ Len(g.minivideoFolders) > 0
       /\ g.currentMinivideoIndex < Len(g.minivideoFolders) - 1
    THEN IF ~IsCurrentMinivideoFullyAnnotated(g) THEN g
         ELSE LoadFrames(d, [g EXCEPT !.currentMinivideoIndex = @ + 1,
                                      !.workflowState = "videoReview"],
                         g.minivideoFolders[g.currentMinivideoIndex + 2])
    ELSE g

\* markSmoke / markNoSmoke up to autoSave (the caller schedules the advance).
MarkFrame(g, hasSmoke) ==
    [g EXCEPT !.frameAnnotations =
        SetAnnotation(@, FrameFile(g, g.currentFrameIndex), hasSmoke)]

AdvanceToNextFrame(g) ==
    IF ~IsCurrentFrameAnnotated(g) THEN g
    ELSE IF g.currentFrameIndex < Len(g.frameFiles) - 1
         THEN [g EXCEPT !.currentFrameIndex = @ + 1]
         ELSE g

\* A nextFrame that does not ask whether the current frame is annotated.
NextFrameUnchecked(g) ==
    IF g.workflowState # "frameAnnotation" \/ Len(g.frameFiles) = 0
       \/ g.currentFrameIndex >= Len(g.frameFiles) - 1
    THEN g
    ELSE [g EXCEPT !.currentFrameIndex = @ + 1]

NextFrame(g) ==
    IF g.workflowState # "frameAnnotation" \/ Len(g.frameFiles) = 0
       \/ g.currentFrameIndex >= Len(g.frameFiles) - 1
    THEN g
    ELSE IF ~IsCurrentFrameAnnotated(g) THEN g
         ELSE [g EXCEPT !.currentFrameIndex = @ + 1]

PreviousFrame(g) ==
    IF g.workflowState # "frameAnnotation" \/ Len(g.frameFiles) = 0
       \/ g.currentFrameIndex <= 0
    THEN g
    ELSE [g EXCEPT !.currentFrameIndex = @ - 1]

\* checkAllFramesAnnotated, lines 1009-1018, up to messagebox.showinfo: a
\* public method without a caller inside the program.  The message box is
\* modal; the method goes on when the user closes it.
CheckAllFramesAnnotated(g) ==
    IF Len(g.frameFiles) = 0 THEN g
    ELSE IF Len(g.frameAnnotations) >= Len(g.frameFiles)
         THEN [g EXCEPT !.dialog = "Complete"]
         ELSE g

\* checkAllFramesAnnotated, line 1019, once the message box is closed.
CompleteDialogClosed(g) ==
    [g EXCEPT !.dialog = "None", !.workflowState = "completed"]

(***************************************************************************)
(* AnnotationGUIBackend (src/temporal_analysis_complete.py, lines 342-596) *)
(* on a video file that exists and opens.  The video reports total_frames  *)
(* frames (CAP_PROP_FRAME_COUNT) and delivers the first readable of them;  *)
(* frame t is the frame t of the two-tone sequence.                        *)
(***************************************************************************)
BackendVideo ==
    [name |-> "video33", total_frames |-> VideoFrames,
     readable |-> VideoFrames - UnreadableFrames,
     frames |-> SeqDesc(VideoFrames, DEFAULT_FRAME_WIDTH, DEFAULT_FRAME_HEIGHT, "split")]

\* The value None of current_temporal_image.
NoImage == <<>>

\* __init__(video_path), lines 360-378.
NewBackend(video) ==
    [video |-> video,
     generator |-> DefaultGenerator,
     current_segment_start |-> 0,
     current_temporal_image |-> NoImage,
     total_frames |-> video.total_frames]

\* load_video_frames(video_path, start_frame, frame_count), start_frame >= 0.
LoadVideoFrames(video, start_frame, frame_count) ==
    IF start_frame + frame_count > video.total_frames
    THEN [ok |-> FALSE, error |-> "ValueError"]
    ELSE IF \E i \in 0..(frame_count - 1) : start_frame + i >= video.readable
         THEN [ok |-> FALSE, error |-> "RuntimeError"]
         ELSE [ok |-> TRUE,
               frames |-> [i \in 0..(frame_count - 1) |-> FrameAt(video.frames, start_frame + i)]]

\* generate_from_video_segment(video_path, start_frame)
GenerateFromVideoSegment(g, video, start_frame) ==
    LET l == LoadVideoFrames(video, start_frame, g.temporal_length)
    IN  IF ~l.ok THEN l ELSE GenerateFromFrames(g, l.frames)

\* Mutant of LoadSegmentForAnnotation: the start frame is stored before the
\* frames are loaded.
LoadSegmentStartFirst(b, start_frame) ==
    LET r == GenerateFromVideoSegment(b.generator, b.video, start_frame)
    IN  IF ~r.ok THEN [ok |-> FALSE, error |-> r.error,
                       self |-> [b EXCEPT !.current_segment_start = start_frame]]
        ELSE [ok |-> TRUE, image |-> r.image,
              self |-> [b EXCEPT !.current_temporal_image = r.image,
                                 !.current_segment_start = start_frame]]

\* load_segment_for_annotation(start_frame): the outcome and the object after
\* the call; an exception leaves before either field is assigned.
\* The start frames the calls on the backend use.
StartFrames == {0, SecondStart, VideoFrames - 64, VideoFrames - 63}

\* generate_from_video_segment of the default generator on the backend's
\* video, evaluated once for every start frame the calls use.
DefaultSegmentOutcomes ==
    [start_frame \in StartFrames |->
        GenerateFromVideoSegment(DefaultGenerator, BackendVideo, start_frame)]

SegmentOutcome(generator, video, start_frame) ==
    IF generator = DefaultGenerator /\ video = BackendVideo /\ start_frame \in StartFrames
    THEN DefaultSegmentOutcomes[start_frame]
    ELSE GenerateFromVideoSegment(generator, video, start_frame)

LoadSegmentForAnnotation(b, start_frame) ==
    IF start_frame + 64 > b.total_frames
    THEN [ok |-> FALSE, error |-> "ValueError", self |-> b]
    ELSE LET r == SegmentOutcome(b.generator, b.video, start_frame)
         IN  IF ~r.ok THEN [ok |-> FALSE, error |-> r.error, self |-> b]
             ELSE [ok |-> TRUE, image |-> r.image,
                   self |-> [b EXCEPT !.current_temporal_image = r.image,
                                      !.current_segment_start = start_frame]]

\* f"{video_name}_frames_{start:06d}_{start + 63:06d}" (line 466)
BackendFileName(b) ==
    <<b.video.name, b.current_segment_start, b.current_segment_start + 63>>

\* _update_segment_summary: the summary with the segment appended and the
\* statistics counted again.
UpdateSegmentSummary(summaries, b, annotation_data) ==
    LET old == IF b.video.name \in DOMAIN summaries THEN summaries[b.video.name].segments
               ELSE <<>>
        segments == Append(old, [segment_id |-> Len(old) + 1,
                                 start_frame |-> b.current_segment_start,
                                 end_frame |-> b.current_segment_start + 63,
                                 smoke_detected |->
                                     IF "smoke_detected" \in DOMAIN annotation_data
                                     THEN annotation_data.smoke_detected ELSE FALSE])
        smoke == Cardinality({i \in DOMAIN segments : segments[i].smoke_detected})
    IN  Put(summaries, b.video.name,
            [total_segments_processed |-> Len(segments),
             segments |-> segments,
             smoke_detected_count |-> smoke,
             no_smoke_count |-> Len(segments) - smoke])

\* Mutant of BackendSaveAnnotation: no check that a segment is loaded.
BackendSaveUnchecked(d, b, annotation_data) ==
    [ok |-> TRUE, path |-> BackendFileName(b),
     disk |-> [d EXCEPT !.temporal_analysis = Put(@, BackendFileName(b), b.current_temporal_image),
                        !.segments_summary = UpdateSegmentSummary(@, b, annotation_data)]]

\* save_annotation(annotation_data): the outcome and the files after the call.
BackendSaveAnnotation(d, b, annotation_data) ==
    IF b.current_temporal_image = NoImage
    THEN [ok |-> FALSE, error |-> "RuntimeError", disk |-> d]
    ELSE [ok |-> TRUE, path |-> BackendFileName(b),
          disk |-> [d EXCEPT
             !.temporal_analysis = Put(@, BackendFileName(b), b.current_temporal_image),
             !.metadata = Put(@, BackendFileName(b),
                              [start_frame |-> b.current_segment_start,
                               end_frame |-> b.current_segment_start + 63,
                               frame_count |-> 64,
                               total_frames |-> b.total_frames,
                               annotation |-> annotation_data]),
             !.segments_summary = UpdateSegmentSummary(@, b, annotation_data)]]

\* The annotation batch_process_video_segments saves with segment i + 1 of
\* its list (lines 660-667): it has no key smoke_detected.
AutoAnnotation(batch_index) ==
    [type |-> "auto_generated", batch_id |-> <<"batch", batch_index>>,
     processing_timestamp |-> "2025-07-16T10:30:00Z",
     ready_for_manual_review |-> TRUE, auto_generated |-> TRUE,
     batch_index |-> batch_index]

\* The loop of batch_process_video_segments from position i of the list: a
\* segment that loads is saved, a failing one is counted and skipped.  The
\* outcome l of the load and the outcome s of the save are each computed
\* once and bound.
RECURSIVE BatchSegments(_, _, _, _)
BatchSaved(s, l, segment_starts, i) ==
    [BatchSegments(s.disk, l.self, segment_starts, i + 1) EXCEPT !.results = <<s.path>> \o @]

BatchLoaded(d, l, segment_starts, i) ==
    IF ~l.ok
    THEN [BatchSegments(d, l.self, segment_starts, i + 1) EXCEPT !.failed = @ + 1]
    ELSE CHOOSE out \in {BatchSaved(s, l, segment_starts, i) :
                            s \in {BackendSaveAnnotation(d, l.self, AutoAnnotation(i))}} : TRUE

BatchSegments(d, b, segment_starts, i) ==
    IF i > Len(segment_starts) THEN [results |-> <<>>, failed |-> 0, disk |-> d]
    ELSE CHOOSE out \in {BatchLoaded(d, l, segment_starts, i) :
                            l \in {LoadSegmentForAnnotation(b, segment_starts[i])}} : TRUE

\* batch_process_video_segments(video_path, segment_starts, output_dir): a
\* backend object of its own, the saved paths and the files after the call,
\* the batch report among them.
BatchProcessVideoSegments(d, video, segment_starts) ==
    LET r == BatchSegments(d, NewBackend(video), segment_starts, 1)
    IN  [results |-> r.results,
         disk |-> [r.disk EXCEPT !.batch_processing =
                      Put(@, video.name,
                          [segments_requested |-> Len(segment_starts),
                           segments_processed |-> Len(r.results),
                           segments_failed |-> r.failed])]]

\* The parameter metadata: None, or <<m>> for the dictionary m (the empty
\* dictionary included).
NoMetadata == <<>>

\* TemporalAnalysisGenerator.save_temporal_analysis(temporal_image,
\* output_path, metadata), lines 308-337.  written is what cv2.imwrite
\* returns: when it is False the method raises IOError and writes nothing;
\* otherwise there is the image file and, when metadata is not None, the
\* file of the same name with the suffix .json next to it.
SaveTemporalAnalysis(d, temporal_image, output_path, metadata, written) ==
    IF ~written THEN [ok |-> FALSE, error |-> "IOError", disk |-> d]
    ELSE [ok |-> TRUE,
          disk |-> [d EXCEPT !.temporal_analysis = Put(@, output_path, temporal_image),
                             !.image_metadata = IF metadata = NoMetadata THEN @
                                                ELSE Put(@, output_path, metadata[1])]]

\* get_segment_info()
GetSegmentInfo(b) ==
    IF b.current_temporal_image = NoImage
    THEN [status |-> "no_segment_loaded"]
    ELSE [status |-> "segment_loaded",
          start_frame |-> b.current_segment_start,
          end_frame |-> b.current_segment_start + 63,
          image_shape |-> <<Size(b.current_temporal_image), Size(b.current_temporal_image[0])>>,
          ready_for_annotation |-> TRUE]

(***************************************************************************)
(* The state machine: one generator, called repeatedly                     *)
(***************************************************************************)
NoCall == [op |-> "none"]

NoBackend == [constructed |-> FALSE]

NoFolders == [constructed |-> FALSE]

\* The application objects as their constructors leave them, nothing written.
InitApps ==
    /\ editor = NewEditor
    /\ gui = NewGui
    /\ disk = EmptyDisk
    /\ backend = NoBackend
    /\ folders = NoFolders

Init ==
    /\ gen = DefaultGenerator
    /\ calls = 0
    /\ first = NoCall
    /\ last = NoCall
    /\ InitApps

\* generator.generate_from_frames(frames)
CallGenerateFromFrames ==
    /\ calls < MaxCalls
    /\ \E in \in FrameInputs(gen) :
          LET c == [op |-> "frames", in |-> in,
                    out |-> GenerateFromFrames(gen, FramesOf(in))]
          IN  /\ last' = c
              /\ first' = IF calls = 0 THEN c ELSE first
              /\ gen' = SelfAfterCall(gen, in)
    /\ calls' = calls + 1
    /\ UNCHANGED appVars

\* The renderer's outcomes on the inputs of the default generator, evaluated
\* once for all calls.
DefaultGridOutcomes ==
    [in \in GridInputs(DefaultGenerator) |->
        Create3x3TemporalGrid(DefaultGenerator, HistoriesOf(DefaultGenerator, in))]

GridOutcome(g, in) ==
    IF g = DefaultGenerator THEN DefaultGridOutcomes[in]
    ELSE Create3x3TemporalGrid(g, HistoriesOf(g, in))

\* generator.create_3x3_temporal_grid(region_histories)
CallCreateGrid ==
    /\ calls < MaxGridCalls
    /\ \E in \in GridInputs(gen) :
          LET c == [op |-> "grid", in |-> in, out |-> GridOutcome(gen, in)]
          IN  /\ last' = c
              /\ first' = IF calls = 0 THEN c ELSE first
              /\ gen' = SelfAfterCall(gen, in)
    /\ calls' = calls + 1
    /\ UNCHANGED appVars

Next == CallGenerateFromFrames

Spec == Init /\ [][Next]_vars

NextGrid == CallCreateGrid

SpecGrid == Init /\ [][NextGrid]_vars

(***************************************************************************)
(* The state machine of construction: generators are constructed with      *)
(* arguments of the caller's choice; the one constructed last is asked for *)
(* its regions and for the histories of short frame sequences.             *)
(***************************************************************************)
NoGenerator == [constructed |-> FALSE]

Exists(g) == "num_regions" \in DOMAIN g

FrameSizes ==
    {<<0, 0>>, <<1, 1>>, <<3, 2>>, <<7, 10>>, <<10, 7>>, <<OddWidth, OddHeight>>,
     <<SmallWidth, SmallHeight>>, <<DEFAULT_FRAME_WIDTH, DEFAULT_FRAME_HEIGHT>>}

CtorInputs ==
    {DefaultArgs}
    \cup [frame_size : FrameSizes,
          num_regions : {DEFAULT_NUM_REGIONS, OtherRegions, DEFAULT_NUM_REGIONS + 1},
          num_bins : {DEFAULT_NUM_BINS, OtherBins},
          temporal_length : {DEFAULT_TEMPORAL_LENGTH, OtherLength},
          brightness_scale : {DEFAULT_BRIGHTNESS_SCALE}]

\* Frame sequences of up to two frames, at frame_size or another resolution.
ProcessInputs(g) ==
    {SeqDesc(n, g.frame_size[1], g.frame_size[2], "split") : n \in 0..2}
    \cup {SeqDesc(1, SmallWidth, SmallHeight, look) : look \in {"black", "ramp"}}

InitGen ==
    /\ gen = NoGenerator
    /\ calls = 0
    /\ first = NoCall
    /\ last = NoCall
    /\ InitApps

\* g = TemporalAnalysisGenerator(...): a constructor that raises binds nothing.
CallConstructor ==
    /\ calls < MaxGenCalls
    /\ \E in \in CtorInputs :
          LET out == NewGenerator(in)
          IN  /\ last' = [op |-> "construct", in |-> in, out |-> out]
              /\ gen' = IF out.ok THEN out.self ELSE gen
    /\ calls' = calls + 1
    /\ UNCHANGED <<first, appVars>>

\* g.define_overlapping_regions()
CallDefineOverlappingRegions ==
    /\ calls < MaxGenCalls
    /\ Exists(gen)
    /\ last' = [op |-> "regions", in |-> gen.frame_size,
                out |-> DefineOverlappingRegions(gen)]
    /\ calls' = calls + 1
    /\ UNCHANGED <<gen, first, appVars>>

\* g.process_frame_sequence(frames)
CallProcessFrameSequence ==
    /\ calls < MaxGenCalls
    /\ Exists(gen)
    /\ \E in \in ProcessInputs(gen) :
          last' = [op |-> "process", in |-> in,
                   out |-> ProcessFrameSequence(gen, FramesOf(in))]
    /\ calls' = calls + 1
    /\ UNCHANGED <<gen, first, appVars>>

NextGen ==
    \/ CallConstructor
    \/ CallDefineOverlappingRegions
    \/ CallProcessFrameSequence

SpecGen == InitGen /\ [][NextGen]_vars

(***************************************************************************)
(* The state machine of the annotation tools: user events on the segment   *)
(* editor and on the frame annotation GUI.                                 *)
(***************************************************************************)
Event == calls < MaxLabelSteps /\ calls' = calls + 1

\* An event of the frame annotation GUI that one of its handlers gets: a
\* message box that is open holds the grab, so the window's widgets and keys
\* get no event until it is closed; timer callbacks run all the same.
GuiEvent == Event /\ gui.dialog = "None"

EditorLoadVideo ==
    /\ Event
    /\ editor' = LoadVideo(editor, VideoFile, VideoFrames)
    /\ UNCHANGED <<gen, first, last, gui, disk, backend, folders>>

\* moveSegmentBack/Forward, moveSegment64Back/Forward, moveSegment640Back/Forward
EditorMoveSegment ==
    /\ Event
    /\ \E frames \in {SMALL_MOVE, MEDIUM_MOVE, LARGE_MOVE} :
       \E direction \in {"forward", "backward"} :
          editor' = MoveSegment(editor, frames, direction)
    /\ UNCHANGED <<gen, first, last, gui, disk, backend, folders>>

\* _handle_playback_finished: the segment has been played to its end.
EditorPlaybackFinished ==
    /\ Event
    /\ editor.currentVideoFile # "None"
    /\ editor' = [editor EXCEPT !.segmentWatched = TRUE]
    /\ UNCHANGED <<gen, first, last, gui, disk, backend, folders>>

\* markSmoke / markNoSmoke -> saveAnnotation -> saveCurrentSegmentOnly
EditorMark(has_smoke) ==
    /\ Event
    /\ IF editor.segmentWatched /\ editor.currentVideoFile # "None"
       THEN /\ editor' = SaveAnnotation(editor, has_smoke)
            /\ disk' = SaveCurrentSegmentOnly(disk, editor', has_smoke)
       ELSE UNCHANGED <<editor, disk>>
    /\ UNCHANGED <<gen, first, last, gui, backend, folders>>

EditorMarkSmoke == EditorMark(TRUE)

EditorMarkNoSmoke == EditorMark(FALSE)

\* saveAnnotationsToFile()
EditorSaveAnnotationsToFile ==
    /\ Event
    /\ disk' = SaveAnnotationsToFile(disk, editor)
    /\ UNCHANGED <<gen, first, last, editor, gui, backend, folders>>

\* A click on the timeline, or a drag over it (onTimelineDrag, lines
\* 1521-1523).
EditorTimelineClick ==
    /\ Event
    /\ \E x \in ClickXs : editor' = OnTimelineClickPosition(editor, CanvasWidth, x)
    /\ UNCHANGED <<gen, first, last, gui, disk, backend, folders>>

\* A click on an entry of the annotation history window.
EditorJumpToSegment ==
    /\ Event
    /\ \E video_file \in DOMAIN editor.annotations :
       \E key \in DOMAIN editor.annotations[video_file] :
          editor' = JumpToSegmentPosition(editor, video_file, VideoFrames,
                                          editor.annotations[video_file][key])
    /\ UNCHANGED <<gen, first, last, gui, disk, backend, folders>>

\* The video folder is chosen (onVideoSelected, loadVideoFolder).
GuiLoadMinivideos ==
    /\ GuiEvent
    /\ gui' = LoadMinivideos(disk, gui)
    /\ UNCHANGED <<gen, first, last, editor, disk, backend, folders>>

\* The button "->".
GuiNextMinivideo ==
    /\ GuiEvent
    /\ gui' = NextMinivideo(disk, gui)
    /\ UNCHANGED <<gen, first, last, editor, disk, backend, folders>>

\* The button "<-".
GuiPreviousMinivideo ==
    /\ GuiEvent
    /\ gui' = PreviousMinivideo(disk, gui)
    /\ UNCHANGED <<gen, first, last, editor, disk, backend, folders>>

\* The "Back to Video Review" button.
GuiReturnToVideoReview ==
    /\ GuiEvent
    /\ gui' = SetVideoReviewMode(gui)
    /\ UNCHANGED <<gen, first, last, editor, disk, backend, folders>>

\* The "Start Frame Annotation" button.
GuiStartFrameAnnotation ==
    /\ GuiEvent
    /\ gui' = SetFrameAnnotationMode(disk, gui)
    /\ UNCHANGED <<gen, first, last, editor, disk, backend, folders>>

\* markSmoke / markNoSmoke of the GUI: annotate, autoSave, schedule the
\* advance 300 ms later.
GuiMark(hasSmoke) ==
    /\ GuiEvent
    /\ gui.timers < MaxTimers
    /\ IF gui.workflowState # "frameAnnotation" \/ Len(gui.frameFiles) = 0
       THEN UNCHANGED <<gui, disk>>
       ELSE /\ gui' = [MarkFrame(gui, hasSmoke) EXCEPT !.timers = @ + 1]
            /\ disk' = AutoSave(disk, gui')
    /\ UNCHANGED <<gen, first, last, editor, backend, folders>>

GuiMarkSmoke == GuiMark(TRUE)

GuiMarkNoSmoke == GuiMark(FALSE)

\* The timer callback advanceToNextFrame.
GuiAdvanceTimer ==
    /\ Event
    /\ gui.timers > 0
    /\ gui' = [AdvanceToNextFrame(gui) EXCEPT !.timers = @ - 1]
    /\ UNCHANGED <<gen, first, last, editor, disk, backend, folders>>

\* autoAdvanceFrame(), lines 1021-1023: a public method without a caller
\* inside the program; it advances with no timer involved.
GuiAutoAdvanceFrame ==
    /\ GuiEvent
    /\ gui' = AdvanceToNextFrame(gui)
    /\ UNCHANGED <<gen, first, last, editor, disk, backend, folders>>

\* checkAllFramesAnnotated() is called.
GuiCheckAllFramesAnnotated ==
    /\ GuiEvent
    /\ gui' = CheckAllFramesAnnotated(gui)
    /\ UNCHANGED <<gen, first, last, editor, disk, backend, folders>>

\* The user closes the message box of checkAllFramesAnnotated.
GuiCloseCompleteDialog ==
    /\ Event
    /\ gui.dialog = "Complete"
    /\ gui' = CompleteDialogClosed(gui)
    /\ UNCHANGED <<gen, first, last, editor, disk, backend, folders>>

GuiNextFrame ==
    /\ GuiEvent
    /\ gui' = NextFrame(gui)
    /\ UNCHANGED <<gen, first, last, editor, disk, backend, folders>>

GuiPreviousFrame ==
    /\ GuiEvent
    /\ gui' = PreviousFrame(gui)
    /\ UNCHANGED <<gen, first, last, editor, disk, backend, folders>>

NextLabels ==
    \/ EditorLoadVideo
    \/ EditorMoveSegment
    \/ EditorPlaybackFinished
    \/ EditorMarkSmoke
    \/ EditorMarkNoSmoke
    \/ EditorTimelineClick
    \/ EditorJumpToSegment
    \/ EditorSaveAnnotationsToFile
    \/ GuiLoadMinivideos
    \/ GuiNextMinivideo
    \/ GuiPreviousMinivideo
    \/ GuiReturnToVideoReview
    \/ GuiStartFrameAnnotation
    \/ GuiMarkSmoke
    \/ GuiMarkNoSmoke
    \/ GuiAdvanceTimer
    \/ GuiAutoAdvanceFrame
    \/ GuiCheckAllFramesAnnotated
    \/ GuiCloseCompleteDialog
    \/ GuiNextFrame
    \/ GuiPreviousFrame

\* No annotation yet; the second mini-video folder holds its video file
\* mini_video_2.mp4 or only frames.
InitLabels ==
    /\ gen = DefaultGenerator
    /\ calls = 0
    /\ first = NoCall
    /\ last = NoCall
    /\ editor = NewEditor
    /\ gui = NewGui
    /\ disk \in {EmptyDisk, [EmptyDisk EXCEPT !.videos = {SecondMinivideoFolder}]}
    /\ backend = NoBackend
    /\ folders = NoFolders

SpecLabels == InitLabels /\ [][NextLabels]_vars

(***************************************************************************)
(* The state machine of the annotation backend: one backend object on one  *)
(* video.  The call record carries two history values: the number of       *)
(* successful loads so far and the start frame of the latest of them.      *)
(***************************************************************************)
AnnotationInputs == {[smoke_detected |-> b] : b \in BOOLEAN}

LoadsSoFar == IF last.op = "none" THEN 0 ELSE last.loads

LoadedStart == IF last.op = "none" THEN -1 ELSE last.loaded

InitBackend ==
    /\ gen = DefaultGenerator
    /\ calls = 0
    /\ first = NoCall
    /\ last = NoCall
    /\ editor = NewEditor
    /\ gui = NewGui
    /\ disk = EmptyDisk
    /\ backend = NewBackend(BackendVideo)
    /\ folders = NoFolders

Record(c) ==
    /\ last' = c
    /\ first' = IF calls = 0 THEN c ELSE first
    /\ calls' = calls + 1

\* backend.load_segment_for_annotation(start_frame)
CallLoadSegment ==
    /\ calls < MaxBackendCalls
    /\ \E start_frame \in StartFrames :
          \E r \in {LoadSegmentForAnnotation(backend, start_frame)} :
              /\ backend' = r.self
              /\ Record([op |-> "load", in |-> start_frame,
                         out |-> IF r.ok THEN [ok |-> TRUE]
                                 ELSE [ok |-> FALSE, error |-> r.error],
                         loads |-> LoadsSoFar + (IF r.ok THEN 1 ELSE 0),
                         loaded |-> IF r.ok THEN start_frame ELSE LoadedStart])
    /\ UNCHANGED <<gen, editor, gui, disk, folders>>

\* backend.save_annotation(annotation_data)
CallSaveAnnotation ==
    /\ calls < MaxBackendCalls
    /\ \A v \in DOMAIN disk.segments_summary :
          Len(disk.segments_summary[v].segments) < MaxSaves
    /\ \E annotation_data \in AnnotationInputs :
          \E r \in {BackendSaveAnnotation(disk, backend, annotation_data)} :
              /\ disk' = r.disk
              /\ Record([op |-> "save", in |-> annotation_data,
                         out |-> IF r.ok THEN [ok |-> TRUE, path |-> r.path]
                                 ELSE [ok |-> FALSE, error |-> r.error],
                         loads |-> LoadsSoFar, loaded |-> LoadedStart])
    /\ UNCHANGED <<gen, editor, gui, backend, folders>>

\* The lists of start frames given to batch_process_video_segments.
BatchStarts == {<<>>, <<0, SecondStart, VideoFrames - 64>>}

\* batch_process_video_segments(video_path, segment_starts, output_dir) on
\* the backend's video and output directory.
CallBatchProcessVideoSegments ==
    /\ calls < MaxBackendCalls
    /\ \A v \in DOMAIN disk.segments_summary :
          Len(disk.segments_summary[v].segments) < MaxSaves
    /\ \E segment_starts \in BatchStarts :
          \E r \in {BatchProcessVideoSegments(disk, BackendVideo, segment_starts)} :
              /\ disk' = r.disk
              /\ Record([op |-> "batch", in |-> segment_starts,
                         out |-> [ok |-> TRUE, results |-> r.results],
                         loads |-> LoadsSoFar, loaded |-> LoadedStart])
    /\ UNCHANGED <<gen, editor, gui, backend, folders>>

\* The calls of save_temporal_analysis: the image of a segment written
\* with metadata None and with the empty dictionary under the name the
\* backend gives the first segment, and with a dictionary of one entry under
\* the name of a segment the backend cannot load.
SegmentImagePath(start_frame) ==
    BackendFileName([video |-> BackendVideo, current_segment_start |-> start_frame])

SaveImageInputs ==
    {<<SecondStart, SegmentImagePath(0), NoMetadata>>,
     <<SecondStart, SegmentImagePath(0), <<EmptyMap>>>>,
     <<SecondStart, SegmentImagePath(VideoFrames - 64), <<[start_frame |-> SecondStart]>>>>}

\* gen.save_temporal_analysis(temporal_image, output_path, metadata) with
\* the image of a segment of the video; cv2.imwrite writes the file or
\* returns False.
CallSaveTemporalAnalysis ==
    /\ calls < MaxBackendCalls
    /\ \E in \in SaveImageInputs :
       \E written \in BOOLEAN :
          LET r == SaveTemporalAnalysis(disk, DefaultSegmentOutcomes[in[1]].image,
                                        in[2], in[3], written)
          IN  /\ disk' = r.disk
              /\ Record([op |-> "save_image", in |-> in,
                         out |-> [f \in DOMAIN r \ {"disk"} |-> r[f]],
                         loads |-> LoadsSoFar, loaded |-> LoadedStart])
    /\ UNCHANGED <<gen, editor, gui, backend, folders>>

\* backend.get_segment_info()
CallGetSegmentInfo ==
    /\ calls < MaxBackendCalls
    /\ Record([op |-> "info", in |-> <<>>, out |-> GetSegmentInfo(backend),
               loads |-> LoadsSoFar, loaded |-> LoadedStart])
    /\ UNCHANGED <<gen, editor, gui, disk, backend, folders>>

NextBackend ==
    \/ CallLoadSegment
    \/ CallSaveAnnotation
    \/ CallGetSegmentInfo
    \/ CallBatchProcessVideoSegments
    \/ CallSaveTemporalAnalysis

SpecBackend == InitBackend /\ [][NextBackend]_vars

(***************************************************************************)
(* convertDataset.py: merge_text_files (lines 39-68).  A text is a         *)
(* sequence of characters; the files hold letters, blanks and newlines.    *)
(***************************************************************************)
NL == "\n"
Chars == {"a", "b", " ", NL}
TextsUpTo(n) == UNION {[1..k -> Chars] : k \in 0..n}

\* str.splitlines(): the lines without their newline; no empty last line.
RECURSIVE SplitFrom(_, _, _)
SplitFrom(text, i, line) ==
    IF i > Len(text) THEN (IF line = <<>> THEN <<>> ELSE <<line>>)
    ELSE IF text[i] = NL THEN <<line>> \o SplitFrom(text, i + 1, <<>>)
    ELSE SplitFrom(text, i + 1, Append(line, text[i]))

SplitLines(text) == SplitFrom(text, 1, <<>>)

\* str.strip(): leading and trailing whitespace removed.
RECURSIVE LStrip(_)
LStrip(line) ==
    IF line # <<>> /\ Head(line) = " " THEN LStrip(Tail(line)) ELSE line

RECURSIVE RStrip(_)
RStrip(line) ==
    IF line # <<>> /\ line[Len(line)] = " "
    THEN RStrip(SubSeq(line, 1, Len(line) - 1)) ELSE line

Strip(line) == RStrip(LStrip(line))

NonBlank(line) == line # <<>>

\* [line.strip() for line in content.splitlines() if line.strip()]
StrippedLines(content) ==
    LET lines == SplitLines(content)
    IN  SelectSeq([i \in 1..Len(lines) |-> Strip(lines[i])], NonBlank)

\* '\n'.join(lines)
RECURSIVE Join(_)
Join(lines) ==
    IF lines = <<>> THEN <<>>
    ELSE IF Len(lines) = 1 THEN lines[1]
    ELSE lines[1] \o <<NL>> \o Join(Tail(lines))

\* merge_text_files(existing_file_path, new_file_path, dest_path): the text
\* written to dest_path.
MergeTextFiles(existing_content, new_content) ==
    LET stripped == StrippedLines(existing_content)
        existing_lines == {stripped[i] : i \in 1..Len(stripped)}
        new_lines == StrippedLines(new_content)
        IsNew(line) == line \notin existing_lines
        unique_new_lines == SelectSeq(new_lines, IsNew)
    IN  existing_content
        \o (IF existing_content # <<>>
               /\ existing_content[Len(existing_content)] # NL
               /\ unique_new_lines # <<>>
            THEN <<NL>> ELSE <<>>)
        \o (IF unique_new_lines # <<>> THEN Join(unique_new_lines) \o <<NL>> ELSE <<>>)

(***************************************************************************)
(* The state machine of merge_text_files: one text file of that name in    *)
(* the source and in the destination folder; the source file is merged     *)
(* into the destination file, repeatedly.                                  *)
(***************************************************************************)
TextPath == <<"labels", "annotations", ".txt">>

InitMerge ==
    /\ gen = DefaultGenerator
    /\ calls = 0
    /\ first = NoCall
    /\ last = NoCall
    /\ editor = NewEditor
    /\ gui = NewGui
    /\ disk = EmptyDisk
    /\ backend = NoBackend
    /\ \E existing \in TextsUpTo(MaxExisting) : \E new \in TextsUpTo(MaxNew) :
          folders = [source |-> Put(EmptyMap, TextPath, new),
                     destination |-> Put(EmptyMap, TextPath, existing)]

\* merge_text_files(dst/p, src/p, dst/p)
CallMergeTextFiles ==
    /\ calls < MaxMerges
    /\ \E p \in DOMAIN folders.source \cap DOMAIN folders.destination :
          \E merged \in {MergeTextFiles(folders.destination[p], folders.source[p])} :
              /\ folders' = [folders EXCEPT !.destination = Put(@, p, merged)]
              /\ Record([op |-> "merge_text_files",
                         in |-> [existing |-> folders.destination[p],
                                 new |-> folders.source[p]],
                         out |-> merged])
    /\ UNCHANGED <<gen, editor, gui, disk, backend>>

NextMerge == CallMergeTextFiles

SpecMerge == InitMerge /\ [][NextMerge]_vars

(***************************************************************************)
(* convertDataset.py: merge_json_files (lines 7-37), combine_folders       *)
(* (lines 70-155) and main (lines 157-181).  A folder is a function from   *)
(* relative paths <<directory, stem, extension>> to file contents: a text  *)
(* for a text file, the parsed document for a JSON file (or the mark of a  *)
(* file json.load rejects), a number for the bytes of any other file.      *)
(***************************************************************************)
JsonDict(f) == [json |-> "dict", value |-> f]
JsonList(l) == [json |-> "list", value |-> l]
JsonInvalid == [json |-> "invalid"]

\* merge_json_files(existing_file_path, new_file_path, dest_path): whether
\* it returned True, and the document written.
MergeJsonFiles(existing_data, new_data) ==
    IF existing_data.json = "invalid" \/ new_data.json = "invalid"
    THEN [ok |-> FALSE]
    ELSE IF existing_data.json = "dict" /\ new_data.json = "dict"
    THEN [ok |-> TRUE,
          data |-> JsonDict([k \in DOMAIN existing_data.value \cup DOMAIN new_data.value |->
                               IF k \in DOMAIN new_data.value THEN new_data.value[k]
                               ELSE existing_data.value[k]])]
    ELSE IF existing_data.json = "list" /\ new_data.json = "list"
    THEN LET InExisting(item) == \E i \in 1..Len(existing_data.value) :
                                     existing_data.value[i] = item
             NotInExisting(item) == ~InExisting(item)
         IN  [ok |-> TRUE,
              data |-> JsonList(existing_data.value
                                \o SelectSeq(new_data.value, NotInExisting))]
    ELSE [ok |-> TRUE,
          data |-> JsonDict([k \in {"existing", "new"} |->
                               IF k = "existing" THEN existing_data ELSE new_data])]

\* str.lower() on the extensions of the files below.
Lower(ext) ==
    CASE ext = ".TXT" -> ".txt"
      [] ext = ".JSON" -> ".json"
      [] ext = ".PNG" -> ".png"
      [] OTHER -> ext

\* combine_folders(source_folder, destination_folder, merge_mode): the
\* destination folder afterwards.  merge_mode is only printed (lines 83, 154).
CombineFolders(source, destination, merge_mode) ==
    [rel_path \in DOMAIN source \cup DOMAIN destination |->
        IF rel_path \notin DOMAIN source THEN destination[rel_path]
        ELSE IF rel_path \notin DOMAIN destination THEN source[rel_path]
        ELSE LET file_ext == Lower(rel_path[3])
                 merged == MergeJsonFiles(destination[rel_path], source[rel_path])
             IN  IF file_ext = ".json"
                 THEN (IF merged.ok THEN merged.data ELSE source[rel_path])
                 ELSE IF file_ext \in {".txt", ".py", ".xml", ".csv", ".log"}
                 THEN MergeTextFiles(destination[rel_path], source[rel_path])
                 ELSE source[rel_path]]

\* main(): args.merge is passed as merge_mode; --dry-run only lists files.
Main(source, destination, args) ==
    IF args.dry_run THEN destination
    ELSE CombineFolders(source, destination, args.merge)

(***************************************************************************)
(* The state machine of combine_folders: a source and a destination folder *)
(* that each hold some of four files.                                      *)
(***************************************************************************)
JsonPath == <<"summary", "all_annotations", ".json">>
ImagePath == <<"images", "segment", ".png">>
NotesPath == <<"labels", "NOTES", ".TXT">>

TextA == <<"a", NL>>
TextB == <<"b", NL, "b">>

Contents(path) ==
    IF path = JsonPath
    THEN {JsonDict([k \in {"x"} |-> 1]), JsonDict([k \in {"x", "y"} |-> 2]),
          JsonList(<<1, 2>>), JsonList(<<2, 3>>), JsonInvalid}
    ELSE IF path = ImagePath THEN {1, 2}
    ELSE IF path = TextPath THEN {TextA, TextB}
    ELSE {TextA}

\* A file that is absent (<<>>) or present with one of its contents.
Choices(path) == {<<>>} \cup {<<c>> : c \in Contents(path)}

\* The folder of the files chosen.
Folder(text, json, image, notes) ==
    LET chosen(p) == IF p = TextPath THEN text
                     ELSE IF p = JsonPath THEN json
                     ELSE IF p = ImagePath THEN image
                     ELSE notes
    IN  [p \in {q \in {TextPath, JsonPath, ImagePath, NotesPath} : chosen(q) # <<>>} |->
            chosen(p)[1]]

FoldersOf ==
    {Folder(text, json, image, notes) :
        text \in Choices(TextPath), json \in Choices(JsonPath),
        image \in Choices(ImagePath), notes \in Choices(NotesPath)}

InitCombine ==
    /\ gen = DefaultGenerator
    /\ calls = 0
    /\ first = NoCall
    /\ last = NoCall
    /\ editor = NewEditor
    /\ gui = NewGui
    /\ disk = EmptyDisk
    /\ backend = NoBackend
    /\ \E source \in FoldersOf : \E destination \in FoldersOf :
          folders = [source |-> source, destination |-> destination]

\* combine_folders(source_folder, destination_folder, merge_mode)
CallCombineFolders ==
    /\ calls < MaxCombines
    /\ \E merge_mode \in BOOLEAN :
          /\ folders' = [folders EXCEPT !.destination =
                            CombineFolders(folders.source, @, merge_mode)]
          /\ Record([op |-> "combine_folders", in |-> folders,
                     merge_mode |-> merge_mode, dry_run |-> FALSE])
    /\ UNCHANGED <<gen, editor, gui, disk, backend>>

\* python convertDataset.py folder1 folder2 [--merge] [--dry-run]
CallMain ==
    /\ calls < MaxCombines
    /\ \E merge, dry_run \in BOOLEAN :
          /\ folders' = [folders EXCEPT !.destination =
                            Main(folders.source, @, [merge |-> merge, dry_run |-> dry_run])]
          /\ Record([op |-> "main", in |-> folders,
                     merge_mode |-> merge, dry_run |-> dry_run])
    /\ UNCHANGED <<gen, editor, gui, disk, backend>>

NextCombine ==
    \/ CallCombineFolders
    \/ CallMain

SpecCombine == InitCombine /\ [][NextCombine]_vars

(***************************************************************************)
(* Helpers of the properties                                               *)
(***************************************************************************)
\* The 64x64 area of region i in a 192x192 image.
Block(img, i) ==
    [y \in 0..63 |-> [x \in 0..63 |-> img[64 * (i \div 3) + y][64 * (i % 3) + x]]]

\* The history the renderer input in gives to region i.
InputHistory(in, i) == HistoryOf(gen, IF i = in.r THEN in.own ELSE in.others)

\* min(255, max(0, 255 * 6 * v)) truncated, for a value v = num / den.
FixedGainByte(v) ==
    LET q == (255 * 6 * v.num) \div v.den
    IN  IF q < 0 THEN 0 ELSE IF q > 255 THEN 255 ELSE q

\* The pixel (y, x) a well-formed history h is rendered to: cell (y, column
\* floor(x * width / 64)) at fixed gain, and 0 below the last row of h.
RenderedCell(h, y, x) ==
    IF y < Size(h) THEN FixedGainByte(h[y][(x * Size(h[y])) \div 64]) ELSE 0

SetMin(S) == CHOOSE m \in S : \A x \in S : m <= x
SetMax(S) == CHOOSE m \in S : \A x \in S : m >= x
MatrixNums(h) == UNION {{h[t][b].num : b \in DOMAIN h[t]} : t \in DOMAIN h}

GridReturned(c) == c.op = "grid" /\ c.out.ok

(***************************************************************************)
(* C1.  Every call of generate_from_frames with exactly 64 frames, at the  *)
(* configured frame size or at another resolution, returns an image of     *)
(* 192 rows by 192 columns whose pixels lie in 0..255.                     *)
(***************************************************************************)
C1_ShapeAndRange ==
    (last.op = "frames" /\ last.in.n = 64) =>
        /\ last.out.ok
        /\ DOMAIN last.out.image = 0..191
        /\ \A y \in 0..191 :
              /\ DOMAIN last.out.image[y] = 0..191
              /\ \A x \in 0..191 : last.out.image[y][x] \in 0..255

C1_Witness ==
    /\ last.op = "frames" /\ last.in.n = 64
    /\ <<last.in.width, last.in.height>> # gen.frame_size
    /\ last.out.ok
    /\ \E y \in 0..191 : \E x \in 0..191 : last.out.image[y][x] = 255

(***************************************************************************)
(* C2.  generate_from_frames rejects no frame sequence for its length:     *)
(* for every number n >= 0 of well-typed frames it returns a complete      *)
(* 192x192 image and raises nothing.                                       *)
(***************************************************************************)
C2_NoLengthRejected ==
    last.op = "frames" =>
        /\ last.out.ok
        /\ DOMAIN last.out.image = 0..191

(***************************************************************************)
(* C3.  Failure isolation: when one region's history holds a wrong-length  *)
(* vector, the renderer still returns an image, that region's block is all *)
(* zero and the other blocks are those of the uncorrupted input.           *)
(***************************************************************************)
C3_FailureIsolated ==
    (last.op = "grid" /\ last.in.own.bad >= 0) =>
        /\ last.out.ok
        /\ \A y \in 0..63 : \A x \in 0..63 : Block(last.out.image, last.in.r)[y][x] = 0
        /\ (GridReturned(first) /\ first.in = [last.in EXCEPT !.own.bad = -1]) =>
              \A i \in (0..8) \ {last.in.r} :
                  Block(last.out.image, i) = Block(first.out.image, i)

(***************************************************************************)
(* C4.  Min-max normalization: a region whose matrix has min # max is      *)
(* rendered cell by cell, v as trunc(255 * (v - min)/(max - min)),         *)
(* with min and max taken over the whole matrix.                           *)
(***************************************************************************)
C4_MinMaxNormalized ==
    (GridReturned(last) /\ last.in.own.n = 64) =>
        LET h == InputHistory(last.in, last.in.r)
            mn == SetMin(MatrixNums(h))
            mx == SetMax(MatrixNums(h))
            b == Block(last.out.image, last.in.r)
        IN  mn # mx =>
               \A y \in 0..63 : \A x \in 0..63 :
                  b[y][x] = (255 * (h[y][(x * Size(h[y])) \div 64].num - mn)) \div (mx - mn)

(***************************************************************************)
(* C5.  Uniform-region rule: a region whose values are one constant c is   *)
(* rendered all 255 when c > 0 and all 0 when c = 0.                       *)
(***************************************************************************)
C5_UniformWhiteOrBlack ==
    (GridReturned(last) /\ last.in.own.p \in {0, 1, 4} /\ last.in.own.n = 64) =>
        LET c == InputHistory(last.in, last.in.r)[0][0]
            b == Block(last.out.image, last.in.r)
        IN  \A y \in 0..63 : \A x \in 0..63 :
               b[y][x] = IF c.num > 0 THEN 255 ELSE 0

\* Call b renders the input of call a with the values of region r multiplied
\* by a larger constant.
Rescaled(a, b) ==
    /\ GridReturned(a) /\ GridReturned(b)
    /\ a.in.own.k < b.in.own.k
    /\ a.in = [b.in EXCEPT !.own.k = a.in.own.k]

(***************************************************************************)
(* C6.  Scale-invariance: multiplying every value of a region history by a *)
(* positive constant leaves the rendered block unchanged.                  *)
(***************************************************************************)
C6_ScaleInvariant ==
    Rescaled(first, last) =>
        Block(last.out.image, last.in.r) = Block(first.out.image, first.in.r)

(***************************************************************************)
(* C7.  Independence of regions: two renderer calls that return and whose  *)
(* inputs agree on region i's history give region i the same block,        *)
(* whatever the other regions' histories are.                              *)
(***************************************************************************)
C7_RegionIndependent ==
    (GridReturned(first) /\ GridReturned(last)) =>
        \A i \in 0..8 :
            InputHistory(first.in, i) = InputHistory(last.in, i) =>
                Block(first.out.image, i) = Block(last.out.image, i)

C7_Witness ==
    /\ GridReturned(first) /\ GridReturned(last)
    /\ first.in.r = last.in.r
    /\ InputHistory(first.in, first.in.r) = InputHistory(last.in, last.in.r)
    /\ \A i \in (0..8) \ {last.in.r} : InputHistory(first.in, i) # InputHistory(last.in, i)
    /\ first.out.image # last.out.image

(***************************************************************************)
(* C8.  Padding law: a region history of n < 64 rows is rendered to a      *)
(* block of 64 rows, rows 0..n-1 from the n histograms in their order and  *)
(* rows n..63 zero.                                                        *)
(***************************************************************************)
C8_PaddedAtEnd ==
    (last.op = "grid" /\ last.in.own.n < 64 /\ last.in.own.bad < 0) =>
        /\ last.out.ok
        /\ LET h == InputHistory(last.in, last.in.r)
               b == Block(last.out.image, last.in.r)
           IN  \A y \in 0..63 : \A x \in 0..63 :
                  b[y][x] = IF y < last.in.own.n THEN RenderedCell(h, y, x) ELSE 0

(***************************************************************************)
(* C9.  Clamping law: two histories of more than 64 rows that agree on     *)
(* their first 64 rows are rendered to the same block.                     *)
(***************************************************************************)
AgreeOnFirst64(h1, h2) ==
    /\ Size(h1) > 64 /\ Size(h2) > 64
    /\ \A t \in 0..63 : h1[t] = h2[t]

C9_OnlyFirst64Rows ==
    (GridReturned(first) /\ GridReturned(last)) =>
        \A i \in 0..8 :
            AgreeOnFirst64(InputHistory(first.in, i), InputHistory(last.in, i)) =>
                Block(first.out.image, i) = Block(last.out.image, i)

C9_Witness ==
    /\ GridReturned(first) /\ GridReturned(last)
    /\ first.in.r = last.in.r
    /\ LET h1 == InputHistory(first.in, first.in.r)
           h2 == InputHistory(last.in, last.in.r)
       IN  /\ AgreeOnFirst64(h1, h2)
           /\ Size(h1) = Size(h2)
           /\ \A t \in 64..(Size(h1) - 1) : h1[t] # h2[t]

(***************************************************************************)
(* C11.  Constructing a generator succeeds exactly when num_regions = 9:   *)
(* any other num_regions raises ValueError and yields no object, so every  *)
(* generator that exists has num_regions = 9.                              *)
(***************************************************************************)
C11_NumRegionsValidated ==
    /\ last.op = "construct" =>
          /\ last.out.ok <=> last.in.num_regions = 9
          /\ ~last.out.ok => (last.out.error = "ValueError" /\ "self" \notin DOMAIN last.out)
          /\ last.out.ok => last.out.self.num_regions = 9
    /\ Exists(gen) => gen.num_regions = 9

\* A construction with num_regions # 9 has failed after one that succeeded.
C11_Witness ==
    /\ last.op = "construct"
    /\ last.in.num_regions # 9
    /\ ~last.out.ok
    /\ Exists(gen)

(***************************************************************************)
(* C12.  The configuration is immutable and the only retained state: after *)
(* any sequence of generate_from_frames calls, successful or failing, the  *)
(* generator has the fields set at construction and no others, with their  *)
(* construction-time values.                                               *)
(***************************************************************************)
C12_ConfigurationImmutable ==
    /\ DOMAIN gen = {"frame_size", "num_regions", "num_bins", "temporal_length",
                     "brightness_scale"}
    /\ gen.frame_size = <<1920, 1080>>
    /\ gen.num_regions = 9
    /\ gen.num_bins = DefaultArgs.num_bins
    /\ gen.temporal_length = 64
    /\ gen.brightness_scale = DefaultArgs.brightness_scale

\* A successful call, then calls that end in a failing one.
C12_Witness ==
    /\ calls = 3
    /\ first.op = "frames" /\ first.out.ok
    /\ last.op = "frames" /\ ~last.out.ok
    /\ gen.temporal_length = 64

(***************************************************************************)
(* C13.  A generator constructed with default arguments has num_bins = 64  *)
(* and temporal_length = 64, and every histogram it produces has exactly   *)
(* 64 entries.                                                             *)
(***************************************************************************)
C13_DefaultBins64 ==
    /\ (last.op = "construct" /\ last.in = DefaultArgs) =>
          /\ last.out.ok
          /\ last.out.self.num_bins = 64
          /\ last.out.self.temporal_length = 64
    /\ (last.op = "process" /\ gen = DefaultGenerator /\ last.out.ok) =>
          \A r \in DOMAIN last.out.histories :
             \A t \in DOMAIN last.out.histories[r] : Size(last.out.histories[r][t]) = 64

(***************************************************************************)
(* C14.  As claimed (Scenario B): for 64 all-black frames every one of the *)
(* 9 blocks of the returned image is entirely 255.                         *)
(***************************************************************************)
C14_BlackFramesAllWhite ==
    (last.op = "frames" /\ last.in.look = "black" /\ last.in.n = 64) =>
        /\ last.out.ok
        /\ \A y \in 0..191 : \A x \in 0..191 : last.out.image[y][x] = 255

(***************************************************************************)
(* C14, amended (Scenario B).  For 64 all-black frames every region's      *)
(* histogram has its whole mass in bin 0, and every one of the 9 blocks    *)
(* has the two columns of bin 0 (columns 0 and 1) entirely 255 and its     *)
(* other 62 columns entirely 0.                                            *)
(***************************************************************************)
C14_BlackFramesFirstBinWhite ==
    (last.op = "frames" /\ last.in.look = "black" /\ last.in.n = 64) =>
        /\ last.out.ok
        /\ \A i \in 0..8 : \A y \in 0..63 : \A x \in 0..63 :
              Block(last.out.image, i)[y][x] = IF x < 2 THEN 255 ELSE 0

C14_Witness ==
    /\ last.op = "frames" /\ last.in.look = "black" /\ last.in.n = 64
    /\ last.out.ok
    /\ last.out.image[191][129] = 255
    /\ last.out.image[191][130] = 0

(***************************************************************************)
(* C20.  Region layout: define_overlapping_regions returns 9 regions named *)
(* R1..R9 in row-major order; region i has row i div 3 and col i mod 3,    *)
(* origin x0 in {0, floor(0.3 W), floor(0.6 W)} by col and y0 likewise by  *)
(* row, x1 = min(x0 + floor(0.4 W), W), y1 = min(y0 + floor(0.4 H), H),    *)
(* hence 0 <= x0 <= x1 <= W and 0 <= y0 <= y1 <= H.                        *)
(***************************************************************************)
C20_RegionLayout ==
    last.op = "regions" =>
        LET W == last.in[1]
            H == last.in[2]
            origin(k, L) == IF k = 0 THEN 0 ELSE IF k = 1 THEN (3 * L) \div 10
                                                          ELSE (6 * L) \div 10
            names == <<"R1", "R2", "R3", "R4", "R5", "R6", "R7", "R8", "R9">>
        IN  /\ DOMAIN last.out = 0..8
            /\ \A i \in 0..8 :
                  LET r == last.out[i]
                      x0 == r.bounds[1]
                      y0 == r.bounds[2]
                      x1 == r.bounds[3]
                      y1 == r.bounds[4]
                  IN  /\ r.name = names[i + 1]
                      /\ r.row = i \div 3 /\ r.col = i % 3
                      /\ x0 = origin(i % 3, W) /\ y0 = origin(i \div 3, H)
                      /\ x1 = (IF x0 + (4 * W) \div 10 < W THEN x0 + (4 * W) \div 10 ELSE W)
                      /\ y1 = (IF y0 + (4 * H) \div 10 < H THEN y0 + (4 * H) \div 10 ELSE H)
                      /\ 0 <= x0 /\ x0 <= x1 /\ x1 <= W
                      /\ 0 <= y0 /\ y0 <= y1 /\ y1 <= H

\* A frame size that is no multiple of 10: R9 of 7 x 10 is (4, 6)-(6, 10).
C20_Witness ==
    /\ last.op = "regions"
    /\ last.in = <<7, 10>>
    /\ last.out[8].name = "R9"
    /\ last.out[8].bounds = <<4, 6, 6, 10>>

(***************************************************************************)
(* C15.  Label encoding.  Every label file of the segment editor holds     *)
(* exactly one line "<class> 0.5 0.5 1.0 1.0", there is one for every      *)
(* annotated segment, and its class is 0 if and only if the segment was    *)
(* annotated as smoke and 1 if and only if as no-smoke.  Every line the    *)
(* frame annotation GUI writes has class 0 if and only if its frame was    *)
(* annotated as smoke and class 1 if and only if as no-smoke.              *)
(***************************************************************************)
\* The lines of a YOLO file of the GUI that belong to relative frame n.
LinesOfFrame(lines, n) ==
    {i \in DOMAIN lines :
        lines[i][3] \in {Fixed6(2 * (regionRow * 64 + n) + 1, 384) : regionRow \in 0..2}}

C15_LabelEncoding ==
    /\ \A k \in DOMAIN disk.labels :
          LET content == disk.labels[k]
              a == editor.annotations[k[1]][<<k[2], k[3]>>]
          IN  /\ Len(content) = 1
              /\ content[1] \in {<<"0", "0.5", "0.5", "1.0", "1.0">>,
                                 <<"1", "0.5", "0.5", "1.0", "1.0">>}
              /\ content[1][1] = "0" <=> a.has_smoke
              /\ content[1][1] = "1" <=> ~a.has_smoke
    /\ \A video \in DOMAIN editor.annotations :
          \A key \in DOMAIN editor.annotations[video] :
             <<video, key[1], key[2]>> \in DOMAIN disk.labels
    /\ \A folder \in DOMAIN disk.yolo :
          LET lines == disk.yolo[folder]
              annots == disk.auto_save[folder]
              inRange == {j \in DOMAIN annots : annots[j].frame - FramesOfFolder(folder)[1] \in 0..63}
          IN  /\ Len(lines) = 9 * Cardinality(inRange)
              /\ \A j \in inRange :
                    LET mine == LinesOfFrame(lines, annots[j].frame - FramesOfFolder(folder)[1])
                    IN  /\ Cardinality(mine) = 9
                        /\ \A i \in mine :
                              /\ lines[i][1] = "0" <=> annots[j].hasSmoke
                              /\ lines[i][1] = "1" <=> ~annots[j].hasSmoke

\* Both tools have written labels of both classes.
C15_Witness ==
    /\ \E k1 \in DOMAIN disk.labels : \E k2 \in DOMAIN disk.labels :
          /\ disk.labels[k1] = <<(<<"0", "0.5", "0.5", "1.0", "1.0">>)>>
          /\ disk.labels[k2] = <<(<<"1", "0.5", "0.5", "1.0", "1.0">>)>>
    /\ MinivideoFolder \in DOMAIN disk.yolo
    /\ Len(disk.yolo[MinivideoFolder]) = 18
    /\ disk.yolo[MinivideoFolder][1] = <<"0", "0.166667", "0.002604", "0.333333", "0.005208">>
    /\ disk.yolo[MinivideoFolder][18][1] = "1"

(***************************************************************************)
(* C16.  Protocol order of the backend: save_annotation before any         *)
(* successful load raises RuntimeError and writes no image, metadata or    *)
(* summary; until the first successful load get_segment_info reports       *)
(* 'no_segment_loaded', afterwards 'segment_loaded' with the start frame   *)
(* of the segment loaded most recently.                                    *)
(***************************************************************************)
C16_LoadBeforeSave ==
    /\ [][(calls' = calls + 1 /\ last'.op = "save" /\ last'.loads = 0) =>
             /\ ~last'.out.ok
             /\ last'.out.error = "RuntimeError"
             /\ disk'.temporal_analysis = disk.temporal_analysis
             /\ disk'.metadata = disk.metadata
             /\ disk'.segments_summary = disk.segments_summary]_vars
    /\ [](/\ (last.op = "info" /\ last.loads = 0) =>
                last.out = [status |-> "no_segment_loaded"]
          /\ (last.op = "info" /\ last.loads > 0) =>
                /\ last.out.status = "segment_loaded"
                /\ last.out.start_frame = last.loaded
                /\ last.out.end_frame = last.loaded + 63)

\* A save before any load has failed; after two loads the info names the
\* segment loaded last.
C16_Witness ==
    /\ first.op = "save" /\ ~first.out.ok
    /\ last.op = "info" /\ last.loads = 2
    /\ last.out.status = "segment_loaded"
    /\ last.out.start_frame = SecondStart
    /\ disk = EmptyDisk

(***************************************************************************)
(* C17.  load_segment_for_annotation(start_frame) raises ValueError when   *)
(* start_frame + 64 > total_frames; every failing call leaves              *)
(* current_temporal_image and current_segment_start unchanged; so whenever *)
(* current_temporal_image is set, it is the image generated from the 64    *)
(* frames that begin at current_segment_start.                             *)
(***************************************************************************)
SegmentImages ==
    [start_frame \in {s \in StartFrames : s + 64 <= BackendVideo.total_frames} |->
        GenerateFromFrames(DefaultGenerator,
            [i \in 0..63 |-> FrameAt(BackendVideo.frames, start_frame + i)]).image]

ImageOfSegment(start_frame) == SegmentImages[start_frame]

C17_FailedLoadKeepsSegment ==
    /\ [](/\ (last.op = "load" /\ last.in + 64 > BackendVideo.total_frames) =>
                (~last.out.ok /\ last.out.error = "ValueError")
          /\ backend.current_temporal_image # NoImage =>
                backend.current_temporal_image = ImageOfSegment(backend.current_segment_start))
    /\ [][(last'.op = "load" /\ ~last'.out.ok) =>
             /\ backend'.current_temporal_image = backend.current_temporal_image
             /\ backend'.current_segment_start = backend.current_segment_start]_vars

\* After a successful load a later call has failed on unreadable frames and
\* left the loaded segment in place.
C17_Witness ==
    /\ calls >= 3
    /\ first.op = "load" /\ first.out.ok /\ first.in = SecondStart
    /\ last.op = "load" /\ ~last.out.ok /\ last.out.error = "RuntimeError"
    /\ last.loads = 1
    /\ backend.current_segment_start = SecondStart
    /\ backend.current_temporal_image # NoImage

(***************************************************************************)
(* C18.  merge_text_files avoids duplicates: the merged file is the        *)
(* existing content followed only by lines of the new file that are not    *)
(* already present; no line of the existing file is appended, no line is   *)
(* appended more than once, and merging the same new file a second time    *)
(* adds nothing.                                                           *)
(***************************************************************************)
\* The lines that follow the existing content in the merged text.
AppendedLines(existing, merged) ==
    SelectSeq(SplitLines(SubSeq(merged, Len(existing) + 1, Len(merged))), NonBlank)

LinesOf(content) ==
    LET lines == SplitLines(content)
    IN  {lines[i] : i \in 1..Len(lines)} \cup {Strip(lines[i]) : i \in 1..Len(lines)}

C18_NoDuplicateLines ==
    last.op = "merge_text_files" =>
        LET existing == last.in.existing
            merged == last.out
            appended == AppendedLines(existing, merged)
        IN  /\ Len(merged) >= Len(existing)
            /\ SubSeq(merged, 1, Len(existing)) = existing
            /\ \A i \in 1..Len(appended) :
                  /\ appended[i] \in LinesOf(last.in.new)
                  /\ appended[i] \notin LinesOf(existing)
            /\ \A i, j \in 1..Len(appended) : i # j => appended[i] # appended[j]
            /\ calls = MaxMerges => last.out = first.out

(***************************************************************************)
(* C19.  combine_folders merges same-named text and JSON files only when   *)
(* merge_mode is True; when merge_mode is False (the command line without  *)
(* --merge) a file that exists in both folders is not merged: it ends as   *)
(* one of the two files.  In both modes every source file is present in    *)
(* the destination at the same relative path afterwards and destination    *)
(* files without counterpart in the source are unchanged.                  *)
(***************************************************************************)
C19_MergeOnlyInMergeMode ==
    (last.op \in {"combine_folders", "main"} /\ ~last.dry_run) =>
        LET source == last.in.source
            before == last.in.destination
            after == folders.destination
        IN  /\ \A p \in DOMAIN source \cap DOMAIN before :
                  /\ (last.merge_mode /\ Lower(p[3]) = ".txt") =>
                        after[p] = MergeTextFiles(before[p], source[p])
                  /\ (last.merge_mode /\ Lower(p[3]) = ".json"
                         /\ MergeJsonFiles(before[p], source[p]).ok) =>
                        after[p] = MergeJsonFiles(before[p], source[p]).data
                  /\ ~last.merge_mode => after[p] \in {source[p], before[p]}
            /\ DOMAIN source \subseteq DOMAIN after
            /\ \A p \in DOMAIN before \ DOMAIN source : after[p] = before[p]

(***************************************************************************)
(* C21.  Region overlap: for a frame size whose dimensions are multiples   *)
(* of 10, two regions adjacent in a row overlap in a vertical strip whose  *)
(* width is 20% of the frame width, and two regions adjacent in a column   *)
(* overlap in a strip whose height is 20% of the frame height.             *)
(***************************************************************************)
\* Width (k = 1) or height (k = 2) of the intersection of two regions.
OverlapOf(a, b, k) ==
    Max(0, Min(a.bounds[k + 2], b.bounds[k + 2]) - Max(a.bounds[k], b.bounds[k]))

C21_OverlapFifth ==
    (last.op = "regions" /\ last.in[1] % 10 = 0 /\ last.in[2] % 10 = 0) =>
        \A i \in 0..8 :
            /\ i % 3 < 2 => 5 * OverlapOf(last.out[i], last.out[i + 1], 1) = last.in[1]
            /\ i \div 3 < 2 => 5 * OverlapOf(last.out[i], last.out[i + 3], 2) = last.in[2]

(***************************************************************************)
(* C22.  Histogram extraction: for every standardized frame and every      *)
(* region of N >= 1 pixels, compute_saturation_histogram returns num_bins  *)
(* non-negative entries; entry b is (number of region pixels whose         *)
(* saturation lies in equal-width bin b) / (N + epsilon); every pixel, one *)
(* of saturation 255 included, is counted in exactly one bin, so the       *)
(* counts sum to N.                                                        *)
(***************************************************************************)
\* Saturation s of 0..255 lies in bin b of nb equal-width bins of [0, 1],
\* the last of them closed on the right.
InBin(s, b, nb) ==
    \/ b * UINT8_MAX <= s * nb /\ s * nb < (b + 1) * UINT8_MAX
    \/ b = nb - 1 /\ s = UINT8_MAX

\* Pixels of the region of the frame whose saturation lies in bin b.
PixelsInBin(frame, bounds, b, nb) ==
    LET rows == bounds[4] - bounds[2]
        left == Cardinality({x \in bounds[1]..(bounds[3] - 1) : x < frame.split})
        right == Cardinality({x \in bounds[1]..(bounds[3] - 1) : x >= frame.split})
    IN  (IF InBin(Saturation(frame.left), b, nb) THEN left * rows ELSE 0)
        + (IF InBin(Saturation(frame.right), b, nb) THEN right * rows ELSE 0)

RECURSIVE SumNums(_, _)
SumNums(hist, b) == IF b < 0 THEN 0 ELSE hist[b].num + SumNums(hist, b - 1)

C22_HistogramCounts ==
    (last.op = "process" /\ last.out.ok) =>
        \A r \in 0..8 : \A t \in 0..(last.in.n - 1) :
            LET frame == Standardize(gen, FrameAt(last.in, t))
                bounds == DefineOverlappingRegions(gen)[r].bounds
                N == (bounds[3] - bounds[1]) * (bounds[4] - bounds[2])
                hist == last.out.histories[r][t]
            IN  N >= 1 =>
                  /\ DOMAIN hist = 0..(gen.num_bins - 1)
                  /\ \A b \in DOMAIN hist :
                        /\ hist[b].num >= 0
                        /\ hist[b].num = PixelsInBin(frame, bounds, b, gen.num_bins)
                        /\ hist[b].den = N
                        /\ hist[b].eps = 1
                  /\ SumNums(hist, gen.num_bins - 1) = N
                  /\ \A s \in {Saturation(frame.left), Saturation(frame.right)} :
                        Cardinality({b \in DOMAIN hist : InBin(s, b, gen.num_bins)}) = 1

\* Frame 1 of the two-tone sequence at 1920 x 1080: region R1 holds red pixels
\* (saturation 255, last bin) and grey pixels (saturation 0, bin 0).
C22_Witness ==
    /\ last.op = "process" /\ last.out.ok
    /\ gen.frame_size = <<DEFAULT_FRAME_WIDTH, DEFAULT_FRAME_HEIGHT>>
    /\ last.in.n = 2 /\ last.in.look = "split"
    /\ last.out.histories[0][1][gen.num_bins - 1].num = SplitStep * Int04(DEFAULT_FRAME_HEIGHT)
    /\ last.out.histories[0][1][0].num > 0

(***************************************************************************)
(* C23.  Temporal history builder: for every input of n frames (on a       *)
(* generator whose regions all hold pixels) process_frame_sequence returns *)
(* exactly 9 histories, each of length n; entry t of history r is the      *)
(* histogram of region r on frame t after that frame was brought to        *)
(* frame_size, frames already at frame_size being used as they are; a      *)
(* length n other than temporal_length is not rejected.                    *)
(***************************************************************************)
RegionsHoldPixels(g) ==
    \A r \in 0..8 :
        LET bounds == DefineOverlappingRegions(g)[r].bounds
        IN  bounds[1] < bounds[3] /\ bounds[2] < bounds[4]

C23_NineHistoriesOfLengthN ==
    (last.op = "process" /\ RegionsHoldPixels(gen)) =>
        /\ last.out.ok
        /\ DOMAIN last.out.histories = 0..8
        /\ \A r \in 0..8 :
              /\ DOMAIN last.out.histories[r] = 0..(last.in.n - 1)
              /\ \A t \in 0..(last.in.n - 1) :
                    LET given == FrameAt(last.in, t)
                        frame == IF <<given.width, given.height>> = gen.frame_size
                                 THEN given
                                 ELSE Frame(gen.frame_size[1], gen.frame_size[2], 0,
                                            given.right, given.right)
                        bounds == DefineOverlappingRegions(gen)[r].bounds
                    IN  \A b \in 0..(gen.num_bins - 1) :
                          last.out.histories[r][t][b].num
                              = PixelsInBin(frame, bounds, b, gen.num_bins)

\* Two frames given to a generator of temporal_length 64: two histograms per
\* region, in the order of the frames (frame 0 all grey, frame 1 partly red).
C23_Witness ==
    /\ last.op = "process" /\ last.out.ok
    /\ last.in.n = 2 /\ gen.temporal_length = DEFAULT_TEMPORAL_LENGTH
    /\ DOMAIN last.out.histories[8] = 0..1
    /\ last.out.histories[0][0][gen.num_bins - 1].num = 0
    /\ last.out.histories[0][1][gen.num_bins - 1].num > 0

(***************************************************************************)
(* C24.  Block placement: region i's rendered 64x64 block is written to    *)
(* exactly the output rows 64*(i div 3) .. 64*(i div 3)+63 and columns     *)
(* 64*(i mod 3) .. 64*(i mod 3)+63; the nine target areas are pairwise     *)
(* disjoint and together cover all 192x192 pixels, so no region's block    *)
(* is changed by the writing of another one.                               *)
(***************************************************************************)
\* Pixel (y, x) lies in the target area of region i.
InArea(i, y, x) ==
    /\ 64 * (i \div 3) <= y /\ y <= 64 * (i \div 3) + 63
    /\ 64 * (i % 3) <= x /\ x <= 64 * (i % 3) + 63

C24_BlockPlacement ==
    GridReturned(last) =>
        /\ DOMAIN last.out.image = 0..191
        /\ \A y \in 0..191 :
              /\ DOMAIN last.out.image[y] = 0..191
              /\ \A x \in 0..191 : Cardinality({i \in 0..8 : InArea(i, y, x)}) = 1
        /\ \A i \in 0..8 : \A h \in {InputHistory(last.in, i)} :
              \A y \in 0..63 : \A x \in 0..63 :
                  /\ InArea(i, 64 * (i \div 3) + y, 64 * (i % 3) + x)
                  /\ last.out.image[64 * (i \div 3) + y][64 * (i % 3) + x]
                       = RenderedCell(h, y, x)

\* Region 0 is all 255 next to regions of another history: the block ends at
\* row 63 and column 63.
C24_Witness ==
    /\ GridReturned(last)
    /\ last.in.r = 0 /\ last.in.own.p = 4
    /\ last.out.image[63][63] = 255
    /\ last.out.image[63][64] = 239
    /\ last.out.image[64][63] = 17
    /\ last.out.image[191][191] = last.out.image[127][127]

(***************************************************************************)
(* C25.  As claimed (column fix-up): the rendered block has one column per *)
(* histogram bin with no resizing; for a region matrix of c columns, block *)
(* column j comes from matrix column j when j < min(c, num_bins) and is    *)
(* zero padding otherwise; no matrix column is duplicated.                 *)
(***************************************************************************)
C25_ColumnsPaddedOrTruncated ==
    (GridReturned(last) /\ last.in.own.n = 64) =>
        \A h \in {InputHistory(last.in, last.in.r)} :
            \A y \in 0..63 : \A j \in 0..63 :
                Block(last.out.image, last.in.r)[y][j]
                    = IF j < Min(Size(h[y]), gen.num_bins) THEN FixedGainByte(h[y][j]) ELSE 0

(***************************************************************************)
(* C25, corrected.  The block is the matrix resized to 64 columns by       *)
(* nearest neighbour: for a region matrix of c columns, block column j     *)
(* (0 <= j < 64) comes from matrix column floor(j * c / 64), whatever      *)
(* num_bins is; there is no zero padding on the right and no truncation at *)
(* num_bins; for c <= 64 every matrix column appears in the block (for     *)
(* c = 32 each one twice), none is interpolated.                           *)
(***************************************************************************)
C25_ColumnsResizedNearest ==
    (GridReturned(last) /\ last.in.own.n = 64) =>
        \A h \in {InputHistory(last.in, last.in.r)} :
            \A b \in {Block(last.out.image, last.in.r)} :
                LET c == Size(h[0])
                IN  /\ \A y \in 0..63 : \A j \in 0..63 :
                          b[y][j] = FixedGainByte(h[y][(j * c) \div 64])
                    /\ c <= 64 => \A k \in 0..(c - 1) : \E j \in 0..63 : (j * c) \div 64 = k
                    /\ c = 32 => \A y \in 0..63 : \A k \in 0..31 :
                          b[y][2 * k] = b[y][2 * k + 1]

\* A matrix of 33 columns on 32 bins: block column 63 shows matrix column 32,
\* block columns 0 and 1 both matrix column 0.
C25_Witness ==
    /\ GridReturned(last)
    /\ last.in.own.w = gen.num_bins + 1 /\ last.in.own.n = 64
    /\ Block(last.out.image, last.in.r)[1][63]
         = FixedGainByte(InputHistory(last.in, last.in.r)[1][32])
    /\ Block(last.out.image, last.in.r)[1][63] # 0
    /\ Block(last.out.image, last.in.r)[1][0] = Block(last.out.image, last.in.r)[1][1]
    /\ Block(last.out.image, last.in.r)[1][1] # Block(last.out.image, last.in.r)[1][2]

(***************************************************************************)
(* C26.  Empty history repair: a region history without any histogram is   *)
(* treated as temporal_length zero vectors: the renderer raises nothing,   *)
(* that region's block is all 0 and the other regions are rendered as      *)
(* usual.                                                                  *)
(***************************************************************************)
C26_EmptyHistoryRendered ==
    (last.op = "grid" /\ last.in.own.n = 0) =>
        /\ last.out.ok
        /\ \A y \in 0..63 : \A x \in 0..63 :
              Block(last.out.image, last.in.r)[y][x] = 0
        /\ \A i \in 0..8 \ {last.in.r} : \A h \in {InputHistory(last.in, i)} :
              \A y \in 0..63 : \A x \in 0..63 :
                  Block(last.out.image, i)[y][x] = RenderedCell(h, y, x)

(***************************************************************************)
(* C27.  Degenerate regions are empty, not errors: for a region of zero    *)
(* area, as a degenerate configured frame size produces it,                *)
(* compute_saturation_histogram returns an all-zero vector of length       *)
(* num_bins and raises nothing, so the frames are processed to the end.    *)
(***************************************************************************)
C27_DegenerateRegionAllZero ==
    (last.op = "process" /\ last.in.n >= 1) =>
        /\ last.out.ok
        /\ \A r \in 0..8 :
              LET bounds == DefineOverlappingRegions(gen)[r].bounds
              IN  (bounds[1] = bounds[3] \/ bounds[2] = bounds[4]) =>
                    \A t \in 0..(last.in.n - 1) :
                        /\ DOMAIN last.out.histories[r][t] = 0..(gen.num_bins - 1)
                        /\ \A b \in 0..(gen.num_bins - 1) :
                              last.out.histories[r][t][b].num = 0

(***************************************************************************)
(* VideoSegmentEditor with its playback: the Tk timer callbacks            *)
(* (root.after), preloading in batches, the frame and image caches and the *)
(* handlers of the keys, buttons and the timeline.  The editor record of   *)
(* this part has the fields of NewEditor and those of PlaybackFields.      *)
(*                                                                         *)
(* A pending root.after callback is a triple <<method, start_frame,        *)
(* batch_index>> (0, 0 for the methods without arguments); e.after maps    *)
(* each pending triple to the number of its pending copies.  e.playbackTimer*)
(* is "None", "pending" (the timer whose id it holds has not run) or       *)
(* "stale" (that timer has run or was cancelled).  An optional frame       *)
(* number is <<>> for None and <<n>> for n.                                *)
(*                                                                         *)
(* _jumpToSegment waits twice with the event loop running: in the dialogs  *)
(* that ask for a video file that is gone, and in root.update() after it   *)
(* has loaded another video.  e.jumping is the stack of its calls that     *)
(* wait, the innermost first: [at |-> "locate" or "update", annotation |-> *)
(* the entry clicked].                                                     *)
(***************************************************************************)
BATCH_SIZE == 16
MAX_CACHE_SIZE == 128

NoFrame == <<>>

ShortVideoFile == "clip.mp4"
BrokenVideoFile == "broken.mp4"
LongVideoFile == "survey.mp4"
MovedVideoFile == "archive.mp4"
VideoFiles == {VideoFile, ShortVideoFile, BrokenVideoFile}

\* os.path.exists(video_file): the video of an earlier session may have been
\* moved away since.
FileExists(filename) == filename # MovedVideoFile

\* cv2.VideoCapture(filename).isOpened()
IsOpened(filename) == filename # BrokenVideoFile

\* int(videoCap.get(cv2.CAP_PROP_FRAME_COUNT))
FrameCount(filename) ==
    IF filename = ShortVideoFile THEN ShortVideoFrames
    ELSE IF filename = LongVideoFile THEN LongVideoFrames
    ELSE VideoFrames

\* What a read at a negative position can give: it fails, or the capture
\* seeks to its first frame.  No such read is made on a video that is at
\* least a segment long.
SeekAnswers(filename) ==
    IF IsOpened(filename) /\ FrameCount(filename) < SEGMENT_LENGTH THEN BOOLEAN ELSE {FALSE}

PlayNextFrameTimer == <<"playNextFrame", 0, 0>>
CheckPreloadingTimer == <<"checkPreloadingAndPlay", 0, 0>>
PreloadBatchTimer(start_frame, batch_index) == <<"preloadFramesBatch", start_frame, batch_index>>

\* _init_video_properties, _init_segment_properties, _init_gui_state,
\* _init_performance_variables.  seeksBelowZero is the answer of the open
\* video to a read at a negative frame position; playedSegment and entered record what the handlers have done:
\* playedSegment is the segment whose playback last ran past its end and
\* has not been repositioned since, entered the calls of startPlayback and
\* saveAnnotation made while handling the last event.
PlaybackFields ==
    [videoCap |-> "None",
     currentFrame |-> 0,
     isPlaying |-> FALSE,
     playbackTimer |-> "None",
     pausedFrame |-> NoFrame,
     workflowState |-> "selection",
     frameCache |-> {},
     imageCache |-> {},
     isPreloading |-> FALSE,
     after |-> EmptyMap,
     seeksBelowZero |-> FALSE,
     playedSegment |-> <<>>,
     entered |-> {},
     jumping |-> <<>>]

NewVideoSegmentEditor == NewEditor @@ PlaybackFields

\* The handler notes that it runs the method, with isPreloading and
\* currentFrame as they are when it enters or resumes it.
Enter(e, method) ==
    [e EXCEPT !.entered = @ \cup {[method |-> method,
                                   isPreloading |-> e.isPreloading,
                                   currentFrame |-> e.currentFrame]}]

\* root.after(delay, callback)
After(e, timer) ==
    [e EXCEPT !.after = Put(@, timer, IF timer \in DOMAIN @ THEN @[timer] + 1 ELSE 1)]

\* One pending copy of the callback leaves the queue: it runs or is cancelled.
Unschedule(e, timer) ==
    [e EXCEPT !.after = IF @[timer] = 1
                        THEN [t \in (DOMAIN @) \ {timer} |-> @[t]]
                        ELSE [@ EXCEPT ![timer] = @ - 1]]

\* preProcessImageForDisplay after frameCache[n] = frame.copy()
CacheFrame(e, frame_number) ==
    [e EXCEPT !.frameCache = @ \cup {frame_number},
              !.imageCache = @ \cup {frame_number}]

\* _get_cached_or_load_frame: the editor afterwards and whether a frame
\* was returned.
GetCachedOrLoadFrame(e, frame_number) ==
    IF frame_number \in e.frameCache THEN [editor |-> e, frame |-> TRUE]
    ELSE IF ~ReadSucceeds(e, frame_number) THEN [editor |-> e, frame |-> FALSE]
    ELSE [editor |-> IF Cardinality(e.frameCache) < MAX_CACHE_SIZE
                     THEN CacheFrame(e, frame_number) ELSE e,
          frame |-> TRUE]

\* displayVideoFrame: the image of currentFrame is cached on a miss.
DisplayVideoFrame(e) == [e EXCEPT !.imageCache = @ \cup {e.currentFrame}]

DisplayFrame(e, frame_number) ==
    IF e.videoCap = "None" THEN e
    ELSE LET r == GetCachedOrLoadFrame(e, frame_number)
         IN  IF r.frame
             THEN DisplayVideoFrame([r.editor EXCEPT !.currentFrame = frame_number])
             ELSE r.editor

\* loadVideo(filename): a file that does not open leaves everything but
\* videoCap and currentVideoFile as it was (lines 1303-1308).  seeks is the
\* answer of this capture to reads at negative positions.
LoadVideoAndDisplay(e, filename, seeks) ==
    LET assigned == [e EXCEPT !.videoCap = IF IsOpened(filename) THEN "open" ELSE "closed",
                              !.currentVideoFile = filename,
                              !.seeksBelowZero = IsOpened(filename) /\ seeks]
    IN  IF ~IsOpened(filename) THEN assigned
        ELSE DisplayFrame([LoadVideo(Enter(assigned, "_reset_segment_state"),
                                     filename, FrameCount(filename))
                               EXCEPT !.currentFrame = 0,
                                      !.pausedFrame = NoFrame,
                                      !.frameCache = {},
                                      !.imageCache = {},
                                      !.playedSegment = <<>>], 0)

PausePlayback(e) ==
    LET paused == [Enter(e, "pausePlayback")
                       EXCEPT !.isPlaying = FALSE, !.pausedFrame = <<e.currentFrame>>]
    IN  IF e.playbackTimer = "pending"
        THEN [Unschedule(paused, PlayNextFrameTimer) EXCEPT !.playbackTimer = "stale"]
        ELSE paused

\* The assignments that place the segment at new_start and show its first
\* frame: the body of _update_segment_position (lines 1557-1573), which
\* onTimelineClick repeats inline (lines 1499-1512).
PositionSegmentAndDisplay(e, new_start) ==
    LET moved == [UpdateSegmentPosition(e, new_start)
                      EXCEPT !.pausedFrame = NoFrame,
                             !.isPreloading = FALSE,
                             !.playedSegment = <<>>]
    IN  DisplayFrame(moved, moved.segmentStart)

\* _update_segment_position, lines 1555-1573
UpdateSegmentPositionAndDisplay(e, new_start) ==
    PositionSegmentAndDisplay(Enter(e, "_update_segment_position"), new_start)

\* moveSegment(frames, direction), lines 1539-1553
MoveSegmentAndDisplay(e, frames, direction) ==
    IF e.videoCap = "None" \/ e.workflowState # "selection" THEN e
    ELSE LET p == IF e.isPlaying THEN PausePlayback(e) ELSE e
         IN  UpdateSegmentPositionAndDisplay(p,
                 IF direction = "forward"
                 THEN Min(p.segmentStart + frames, p.totalFrames - p.segmentLength)
                 ELSE Max(0, p.segmentStart - frames))

\* onTimelineClick(event) on a timeline canvas canvas_width wide, event.x = x
\* (lines 1465-1518).  Playback is paused before the position of the click
\* is looked at; the segment is placed by the handler's own assignments,
\* without a call of _update_segment_position.
OnTimelineClick(e, canvas_width, x) ==
    LET clicked == Enter(e, "onTimelineClick")
    IN  IF e.videoCap = "None" \/ e.workflowState # "selection" THEN clicked
        ELSE LET p == IF e.isPlaying THEN PausePlayback(clicked) ELSE clicked
                 new_start == ClickedStart(p, canvas_width, x)
             IN  IF new_start = <<>> THEN p
                 ELSE PositionSegmentAndDisplay(p, new_start[1])

\* _load_frame_batch(current_frame) from the i-th frame of the batch on
RECURSIVE LoadFrameBatchFrom(_, _, _)
LoadFrameBatchFrom(e, current_frame, i) ==
    LET frame_num == current_frame + i
    IN  IF i >= BATCH_SIZE THEN e
        ELSE IF frame_num > e.segmentEnd \/ frame_num >= e.totalFrames THEN e
        ELSE IF frame_num \notin e.frameCache /\ Cardinality(e.frameCache) < MAX_CACHE_SIZE
             THEN IF ReadSucceeds(e, frame_num)
                  THEN LoadFrameBatchFrom(CacheFrame(e, frame_num), current_frame, i + 1)
                  ELSE e
             ELSE LoadFrameBatchFrom(e, current_frame, i + 1)

LoadFrameBatch(e, current_frame) == LoadFrameBatchFrom(e, current_frame, 0)

\* preloadFramesBatch(start_frame, batch_index), lines 1802-1830
PreloadFramesBatch(e, start_frame, batch_index) ==
    LET current_frame == start_frame + batch_index * BATCH_SIZE
    IN  IF e.videoCap = "None" THEN [e EXCEPT !.isPreloading = FALSE]
        ELSE IF current_frame > e.segmentEnd THEN [e EXCEPT !.isPreloading = FALSE]
        ELSE IF current_frame + BATCH_SIZE <= e.segmentEnd
             THEN After(LoadFrameBatch(e, current_frame),
                        PreloadBatchTimer(start_frame, batch_index + 1))
             ELSE [LoadFrameBatch(e, current_frame) EXCEPT !.isPreloading = FALSE]

\* preloadSegmentFrames, lines 1775-1800
PreloadSegmentFrames(e) ==
    IF e.videoCap = "None" \/ e.isPreloading THEN e
    ELSE LET frames_to_remove == {f \in e.frameCache : f < e.segmentStart \/ f > e.segmentEnd}
         IN  PreloadFramesBatch([e EXCEPT !.isPreloading = TRUE,
                                          !.frameCache = @ \ frames_to_remove,
                                          !.imageCache = @ \ frames_to_remove],
                                e.segmentStart, 0)

\* _handle_playback_finished, lines 1979-1995
HandlePlaybackFinished(e) ==
    DisplayFrame([e EXCEPT !.isPlaying = FALSE,
                           !.segmentWatched = TRUE,
                           !.playedSegment = <<UniqueSegmentKey(e)>>],
                 e.segmentEnd)

\* playNextFrame, lines 1930-1964
PlayNextFrame(e) ==
    IF ~e.isPlaying \/ e.videoCap = "None" THEN e
    ELSE IF e.currentFrame <= e.segmentEnd
         THEN LET r == GetCachedOrLoadFrame(e, e.currentFrame)
                  shown == IF r.frame THEN DisplayVideoFrame(r.editor) ELSE r.editor
              IN  After([shown EXCEPT !.currentFrame = @ + 1,
                                      !.playbackTimer = "pending"],
                        PlayNextFrameTimer)
         ELSE HandlePlaybackFinished(e)

\* Mutant of StartPlayback: playback always begins at segmentStart.
StartPlaybackFromStart(e) ==
    PlayNextFrame(Enter([e EXCEPT !.isPlaying = TRUE,
                                  !.currentFrame = e.segmentStart,
                                  !.pausedFrame = NoFrame],
                        "startPlayback"))

\* startPlayback, lines 1907-1928
StartPlayback(e) ==
    PlayNextFrame(Enter([e EXCEPT !.isPlaying = TRUE,
                                  !.currentFrame =
                                      IF /\ e.pausedFrame # NoFrame
                                         /\ e.pausedFrame[1] >= e.segmentStart
                                         /\ e.pausedFrame[1] <= e.segmentEnd
                                      THEN e.pausedFrame[1] ELSE e.segmentStart,
                                  !.pausedFrame = NoFrame],
                        "startPlayback"))

\* A poll that waits for preloading and then starts nothing.
CheckPreloadingAndWait(e) ==
    IF e.isPreloading THEN After(e, CheckPreloadingTimer) ELSE e

\* checkPreloadingAndPlay, lines 1898-1905
CheckPreloadingAndPlay(e) ==
    IF e.isPreloading THEN After(e, CheckPreloadingTimer) ELSE StartPlayback(e)

\* playSegment, lines 1878-1896
PlaySegment(e) ==
    LET requested == Enter(e, "playSegment")
    IN  IF e.videoCap = "None" THEN requested
        ELSE IF /\ ~e.isPreloading
                /\ ~(\A frame \in e.segmentStart..e.segmentEnd :
                        frame \in e.frameCache /\ frame \in e.imageCache)
             THEN After(PreloadSegmentFrames(requested), CheckPreloadingTimer)
             ELSE StartPlayback(requested)

\* togglePreviewPlayback, lines 1854-1864 (the space key and the preview
\* button)
TogglePreviewPlayback(e) ==
    IF e.videoCap = "None" \/ e.workflowState # "selection" THEN e
    ELSE IF e.isPlaying THEN PausePlayback(e) ELSE PlaySegment(e)

\* togglePlayPause, lines 1866-1876 (the Play Segment button): it does not
\* look at workflowState.
TogglePlayPause(e) ==
    IF e.videoCap = "None" THEN e
    ELSE IF e.isPlaying THEN PausePlayback(e) ELSE PlaySegment(e)

\* replaySegment, lines 2013-2021
ReplaySegment(e) ==
    LET p == [PausePlayback(Enter(e, "replaySegment")) EXCEPT !.pausedFrame = NoFrame,
                                      !.currentFrame = e.segmentStart]
    IN  PlaySegment(DisplayFrame(p, p.segmentStart))

\* The callback of a pending timer runs: the editors it can leave.  A
\* playNextFrame callback is the one playbackTimer names, or another one.
TimerCallback(e, timer) ==
    IF timer = PlayNextFrameTimer
    THEN {PlayNextFrame([Unschedule(e, timer)
                            EXCEPT !.playbackTimer = IF named THEN "stale" ELSE @]) :
             named \in {n \in BOOLEAN :
                           /\ n => e.playbackTimer = "pending"
                           /\ ~n => e.after[timer] >
                                       (IF e.playbackTimer = "pending" THEN 1 ELSE 0)}}
    ELSE IF timer = CheckPreloadingTimer
    THEN {CheckPreloadingAndPlay(Unschedule(e, timer))}
    ELSE {PreloadFramesBatch(Unschedule(e, timer), timer[2], timer[3])}

\* _jumpToSegment, lines 1137-1152: the segment of the entry is assigned and
\* its first frame shown.
JumpAssign(e, annotation) ==
    DisplayFrame([e EXCEPT !.segmentStart = annotation.start_frame,
                           !.segmentEnd = annotation.end_frame,
                           !.segmentWatched = FALSE,
                           !.pausedFrame = NoFrame,
                           !.playedSegment = <<>>],
                 annotation.start_frame)

\* _jumpToSegment, lines 1129-1152, with the file of the video known: for
\* the current video the segment is assigned at once; another video is
\* loaded, and the method waits in root.update() (line 1134).
JumpLoad(e, video_file, annotation, seeks) ==
    IF e.currentVideoFile # video_file
    THEN [LoadVideoAndDisplay(e, video_file, seeks)
             EXCEPT !.jumping = <<[at |-> "update", annotation |-> annotation]>> \o @]
    ELSE JumpAssign(e, annotation)

\* _jumpToSegment(video_file, annotation, historyWindow), lines 1109-1163,
\* up to the point where it first waits: for a file that is gone it opens
\* the message box and the file dialog (lines 1116-1124).
JumpToSegment(e, video_file, annotation, seeks) ==
    LET jumping == Enter(e, "_jumpToSegment")
    IN  IF ~FileExists(video_file)
        THEN [jumping EXCEPT !.jumping = <<[at |-> "locate", annotation |-> annotation]>> \o @]
        ELSE JumpLoad(jumping, video_file, annotation, seeks)

\* The file dialog of line 1120 has returned new_video_file, "" when the
\* user has cancelled it (lines 1125-1127).
JumpLocated(e, new_video_file, seeks) ==
    LET resumed == [e EXCEPT !.jumping = Tail(@)]
    IN  IF new_video_file = "" THEN resumed
        ELSE JumpLoad(Enter(resumed, "_jumpToSegment"), new_video_file,
                      Head(e.jumping).annotation, seeks)

\* root.update() of line 1134 has returned.
JumpUpdated(e) ==
    JumpAssign(Enter([e EXCEPT !.jumping = Tail(@)], "_jumpToSegment"),
               Head(e.jumping).annotation)

\* setWorkflowState(state), lines 1283-1285: a public method without a
\* caller inside the program.
SetWorkflowState(e, state) == [e EXCEPT !.workflowState = state]

\* cleanup(), lines 2335-2345, called by __del__: the capture is released
\* and the timer playbackTimer names is cancelled; isPlaying stays.
Cleanup(e) ==
    LET released == IF e.videoCap = "None" THEN e ELSE [e EXCEPT !.videoCap = "closed"]
    IN  IF released.playbackTimer = "pending"
        THEN [Unschedule(released, PlayNextFrameTimer) EXCEPT !.playbackTimer = "stale"]
        ELSE released

\* markSmoke / markNoSmoke, lines 2037-2055, with saveAnnotation
MarkSegment(e, has_smoke) ==
    LET marking == Enter(e, IF has_smoke THEN "markSmoke" ELSE "markNoSmoke")
    IN  IF ~e.segmentWatched \/ e.currentVideoFile = "None" THEN marking
        ELSE SaveAnnotation(Enter(marking, "saveAnnotation"), has_smoke)

(***************************************************************************)
(* The state machine of the editor: the user's events (at most             *)
(* MaxEditorEvents of them) and the timer callbacks, which run in any      *)
(* order once scheduled.                                                   *)
(***************************************************************************)

InitEditor ==
    /\ gen = DefaultGenerator
    /\ calls = 0
    /\ first = NoCall
    /\ last = NoCall
    /\ editor = NewVideoSegmentEditor
    /\ gui = NewGui
    /\ disk = EmptyDisk
    /\ backend = NoBackend
    /\ folders = NoFolders

\* loadExistingAnnotations, lines 189-215, called by __init__: the
\* annotations of the summary file, if there is one.
LoadExistingSummary(d, e) ==
    IF d.summary = EmptyMap THEN e ELSE [e EXCEPT !.annotations = d.summary]

\* The files an earlier session has left: it has loaded a video, watched
\* the segment at segmentStart and marked it as smoke.
EarlierSession(filename, new_start) ==
    LET watched == [UpdateSegmentPosition(
                        LoadVideoAndDisplay(NewVideoSegmentEditor, filename, FALSE),
                        new_start)
                        EXCEPT !.segmentWatched = TRUE]
        marked == SaveAnnotation(watched, TRUE)
    IN  SaveCurrentSegmentOnly(EmptyDisk, marked, TRUE)

\* The files of an earlier session whose video has been moved away since.
MovedSession(filename, new_start) ==
    LET d == EarlierSession(filename, new_start)
    IN  [d EXCEPT !.summary = [f \in {MovedVideoFile} |-> d.summary[filename]]]

\* The editor starts with no annotation file, or with the file of an
\* earlier session on the short video, or on the last segment of a video
\* that is gone.
InitEditorSession ==
    /\ gen = DefaultGenerator
    /\ calls = 0
    /\ first = NoCall
    /\ last = NoCall
    /\ disk \in {EmptyDisk, EarlierSession(ShortVideoFile, 0),
                 MovedSession(VideoFile, VideoFrames - SEGMENT_LENGTH)}
    /\ editor = LoadExistingSummary(disk, NewVideoSegmentEditor)
    /\ gui = NewGui
    /\ backend = NoBackend
    /\ folders = NoFolders

\* The editor as a handler finds it.
Handling == [editor EXCEPT !.entered = {}]

\* The user does something, MaxEditorEvents times at most.
UserInput ==
    /\ calls < MaxEditorEvents
    /\ calls' = calls + 1
    /\ UNCHANGED <<gen, first, last, gui, backend, folders>>

\* The dialogs of _jumpToSegment are open (lines 1117-1124).
Locating(e) == e.jumping # <<>> /\ Head(e.jumping).at = "locate"

\* An event that a handler of the editor gets: the dialogs hold the grab, so
\* while they are open the editor's widgets and keys get no event; inside
\* root.update() they do.  Timer callbacks run in both.
UserEvent == UserInput /\ ~Locating(editor)

TimerEvent == UNCHANGED <<gen, calls, first, last, gui, disk, backend, folders>>

PressLoadVideo ==
    /\ UserEvent
    /\ \E filename \in VideoFiles :
       \E seeks \in SeekAnswers(filename) :
          editor' = LoadVideoAndDisplay(Handling, filename, seeks)
    /\ UNCHANGED disk

PressMoveSegment ==
    /\ UserEvent
    /\ \E frames \in {SMALL_MOVE, MEDIUM_MOVE, LARGE_MOVE} :
       \E direction \in {"forward", "backward"} :
          editor' = MoveSegmentAndDisplay(Handling, frames, direction)
    /\ UNCHANGED disk

ClickTimeline ==
    /\ UserEvent
    /\ \E x \in ClickXs : editor' = OnTimelineClick(Handling, CanvasWidth, x)
    /\ UNCHANGED disk

\* The space key or the preview button.
PressPlayPause ==
    /\ UserEvent
    /\ editor' = TogglePreviewPlayback(Handling)
    /\ UNCHANGED disk

\* The Play Segment button.
PressPlaySegment ==
    /\ UserEvent
    /\ editor' = TogglePlayPause(Handling)
    /\ UNCHANGED disk

PressReplay ==
    /\ UserEvent
    /\ editor' = ReplaySegment(Handling)
    /\ UNCHANGED disk

PressMark(has_smoke) ==
    /\ UserEvent
    /\ editor' = MarkSegment(Handling, has_smoke)
    /\ disk' = IF \E call \in editor'.entered : call.method = "saveAnnotation"
               THEN SaveCurrentSegmentOnly(disk, editor', has_smoke) ELSE disk

PressMarkSmoke == PressMark(TRUE)

PressMarkNoSmoke == PressMark(FALSE)

\* A click on an entry of the annotation history window.
ClickHistoryEntry ==
    /\ UserEvent
    /\ \E video_file \in DOMAIN editor.annotations :
       \E key \in DOMAIN editor.annotations[video_file] :
       \E seeks \in SeekAnswers(video_file) :
          editor' = JumpToSegment(Handling, video_file,
                                  editor.annotations[video_file][key], seeks)
    /\ UNCHANGED disk

\* The user closes the message box and cancels the file dialog or picks a
\* video file in it.
AnswerLocateDialog ==
    /\ UserInput
    /\ Locating(editor)
    /\ \E new_video_file \in VideoFiles \cup {""} :
       \E seeks \in IF new_video_file = "" THEN {FALSE} ELSE SeekAnswers(new_video_file) :
          editor' = JumpLocated(Handling, new_video_file, seeks)
    /\ UNCHANGED disk

\* root.update() returns to the call of _jumpToSegment that waits in it.
ReturnFromUpdate ==
    /\ TimerEvent
    /\ editor.jumping # <<>>
    /\ Head(editor.jumping).at = "update"
    /\ editor' = JumpUpdated(Handling)

\* The states the program gives workflowState and one it never does.
WorkflowStates == {"selection", "annotation"}

\* setWorkflowState(state)
CallSetWorkflowState ==
    /\ UserEvent
    /\ \E state \in WorkflowStates : editor' = SetWorkflowState(Handling, state)
    /\ UNCHANGED disk

\* cleanup()
CallCleanup ==
    /\ UserEvent
    /\ editor' = Cleanup(Handling)
    /\ UNCHANGED disk

\* saveAnnotationsToFile()
CallSaveAnnotationsToFile ==
    /\ UserEvent
    /\ editor' = Handling
    /\ disk' = SaveAnnotationsToFile(disk, Handling)

\* A pending playNextFrame callback runs.
TimerPlayNextFrame ==
    /\ TimerEvent
    /\ PlayNextFrameTimer \in DOMAIN editor.after
    /\ editor' \in TimerCallback(Handling, PlayNextFrameTimer)

TimerCheckPreloadingAndPlay ==
    /\ TimerEvent
    /\ CheckPreloadingTimer \in DOMAIN editor.after
    /\ editor' \in TimerCallback(Handling, CheckPreloadingTimer)

TimerPreloadFramesBatch ==
    /\ TimerEvent
    /\ \E timer \in DOMAIN editor.after :
          /\ timer[1] = "preloadFramesBatch"
          /\ editor' \in TimerCallback(Handling, timer)

NextEditor ==
    \/ PressLoadVideo
    \/ PressMoveSegment
    \/ ClickTimeline
    \/ PressPlayPause
    \/ PressPlaySegment
    \/ PressReplay
    \/ PressMarkSmoke
    \/ PressMarkNoSmoke
    \/ ClickHistoryEntry
    \/ AnswerLocateDialog
    \/ ReturnFromUpdate
    \/ CallSetWorkflowState
    \/ CallCleanup
    \/ CallSaveAnnotationsToFile
    \/ TimerPlayNextFrame
    \/ TimerCheckPreloadingAndPlay
    \/ TimerPreloadFramesBatch

SpecEditor == InitEditorSession /\ [][NextEditor]_vars

\* The editor of a session in which every video the user opens can be read and
\* is longer than one segment (cv2.VideoCapture opens it, CAP_PROP_FRAME_COUNT
\* exceeds SEGMENT_LENGTH): the handlers of the widgets and keys and the timer
\* callbacks, driven with VideoFile only and started without an annotation
\* file.  Every history entry is then a segment of the video that is open,
\* so _jumpToSegment finds the file, loads nothing and assigns the segment
\* without entering the event loop.  The jumps to a moved file or to another
\* video and the public methods no handler calls are steps of SpecEditor.
PressLoadPlayableVideo ==
    /\ UserEvent
    /\ \E seeks \in SeekAnswers(VideoFile) :
          editor' = LoadVideoAndDisplay(Handling, VideoFile, seeks)
    /\ UNCHANGED disk

NextPlayable ==
    \/ PressLoadPlayableVideo
    \/ PressMoveSegment
    \/ ClickTimeline
    \/ PressPlayPause
    \/ PressPlaySegment
    \/ PressReplay
    \/ PressMarkSmoke
    \/ PressMarkNoSmoke
    \/ ClickHistoryEntry
    \/ TimerPlayNextFrame
    \/ TimerCheckPreloadingAndPlay
    \/ TimerPreloadFramesBatch

SpecPlayable == InitEditor /\ [][NextPlayable]_vars

\* A viewing session: the user opens a video, positions the segment, plays,
\* pauses, replays and marks, MaxLiveEvents times at most. Tk runs every
\* callback scheduled with root.after once its delay has passed and the event
\* loop is idle; the user is under no obligation to act.
ViewingEvent == calls < MaxLiveEvents

NextViewing ==
    \/ ViewingEvent /\ PressLoadPlayableVideo
    \/ ViewingEvent /\ PressMoveSegment
    \/ ViewingEvent /\ ClickTimeline
    \/ ViewingEvent /\ PressPlayPause
    \/ ViewingEvent /\ PressPlaySegment
    \/ ViewingEvent /\ PressReplay
    \/ ViewingEvent /\ PressMarkSmoke
    \/ ViewingEvent /\ PressMarkNoSmoke
    \/ TimerPlayNextFrame
    \/ TimerCheckPreloadingAndPlay
    \/ TimerPreloadFramesBatch

SpecViewingFair ==
    /\ InitEditor
    /\ [][NextViewing]_vars
    /\ WF_vars(TimerPlayNextFrame)
    /\ WF_vars(TimerCheckPreloadingAndPlay)
    /\ WF_vars(TimerPreloadFramesBatch)

\* C29: once a video with at least one frame is loaded, the segment lies
\* inside the video, 0 <= segmentStart <= segmentEnd <= totalFrames - 1, and
\* is min(64, totalFrames) frames long.
C29_SegmentWindow ==
    editor.videoCap = "open" /\ editor.totalFrames >= 1 =>
        /\ 0 <= editor.segmentStart
        /\ editor.segmentStart <= editor.segmentEnd
        /\ editor.segmentEnd <= editor.totalFrames - 1
        /\ editor.segmentEnd - editor.segmentStart + 1 = Min(SEGMENT_LENGTH, editor.totalFrames)

\* C30: startPlayback is never entered while isPreloading is true: every
\* entry of startPlayback made by the last handler or timer callback found
\* isPreloading false.
C30_PlaybackWaitsForPreloading ==
    \A call \in editor.entered : call.method = "startPlayback" => ~call.isPreloading

\* C28: markSmoke and markNoSmoke store and write an annotation exactly when
\* playback of the current segment of the current video has run past
\* segmentEnd since the segment was last positioned (playedSegment names
\* that segment); in every other state they store and write nothing.
C28_WatchBeforeAnnotate ==
    [][(\E call \in editor'.entered : call.method \in {"markSmoke", "markNoSmoke"}) =>
          ((\E call \in editor'.entered : call.method = "saveAnnotation")
              <=> editor.playedSegment = <<UniqueSegmentKey(editor)>>)]_vars

\* C31: in every reachable state at most one playNextFrame timer callback is
\* pending.
C31_SinglePlaybackChain ==
    PlayNextFrameTimer \in DOMAIN editor.after => editor.after[PlayNextFrameTimer] <= 1

\* The handler of the step has entered the method.
Entered(method) == \E call \in editor'.entered : call.method = method

\* The step is a click that lies on the timeline and has placed the segment.
ClickPlacedSegment ==
    /\ Entered("onTimelineClick")
    /\ editor.videoCap # "None"
    /\ editor.workflowState = "selection"
    /\ \E x \in ClickXs :
          /\ ClickedStart(editor, CanvasWidth, x) # <<>>
          /\ editor' = OnTimelineClick(Handling, CanvasWidth, x)

\* The step runs _jumpToSegment to its end, past the assignment of the
\* segment: the call it begins or resumes does not wait afterwards.
JumpPlacedSegment ==
    /\ Entered("_jumpToSegment")
    /\ \/ editor'.jumping = editor.jumping
       \/ editor.jumping # <<>> /\ editor'.jumping = Tail(editor.jumping)

\* The step has repositioned the segment or replayed it.
SegmentChangedOrReplayed ==
    \/ Entered("_update_segment_position")
    \/ ClickPlacedSegment
    \/ JumpPlacedSegment
    \/ Entered("_reset_segment_state")
    \/ Entered("replaySegment")

\* C32: pausePlayback records currentFrame as the paused position; playback
\* starts at the paused position if it lies in [segmentStart, segmentEnd] and
\* at segmentStart otherwise; every segment change and every replay clears
\* the paused position, and a replay starts at segmentStart.
C32_PauseAndResume ==
    [][/\ (Entered("pausePlayback") /\ ~SegmentChangedOrReplayed) =>
              (~editor'.isPlaying /\ editor'.pausedFrame = <<editor.currentFrame>>)
       /\ SegmentChangedOrReplayed => editor'.pausedFrame = NoFrame
       /\ \A call \in editor'.entered : call.method = "startPlayback" =>
              /\ editor'.pausedFrame = NoFrame
              /\ call.currentFrame =
                    IF /\ ~SegmentChangedOrReplayed
                       /\ editor.pausedFrame # NoFrame
                       /\ editor.pausedFrame[1] >= editor.segmentStart
                       /\ editor.pausedFrame[1] <= editor.segmentEnd
                    THEN editor.pausedFrame[1]
                    ELSE editor'.segmentStart]_vars

\* Playback has just started inside the segment, at a paused position.
C32_Witness ==
    /\ \E call \in editor.entered :
          /\ call.method = "startPlayback"
          /\ call.currentFrame > editor.segmentStart
          /\ call.currentFrame <= editor.segmentEnd
    /\ editor.isPlaying

\* C33: after a play request on a loaded video, if the user issues no further
\* input and the scheduled timer callbacks are eventually run, playback starts
\* and later ends: isPlaying = FALSE and segmentWatched = TRUE (which is what
\* markSmoke and markNoSmoke require), preloading is over (isPreloading =
\* FALSE) and no callback is left pending. The request is the user's last
\* event of the session, so no further input follows it.
JustEntered(method) == \E call \in editor.entered : call.method = method

PlayRequested == JustEntered("playSegment") /\ editor.videoCap = "open"

PlaybackEnded == ~editor.isPlaying /\ editor.segmentWatched

C33_PlaybackCompletes ==
    (PlayRequested /\ calls = MaxLiveEvents) ~>
        (/\ JustEntered("startPlayback")
         /\ <>(PlaybackEnded /\ ~editor.isPreloading /\ DOMAIN editor.after = {}))

C33_Witness ==
    /\ PlaybackEnded
    /\ ~editor.isPreloading
    /\ editor.playedSegment # NoFrame
    /\ DOMAIN editor.after = {}
    /\ calls = MaxLiveEvents

\* A session in which the user opens a long video, presses the mouse button
\* at the left end of the timeline and drags to the right: Tk delivers one
\* <B1-Motion> event per pixel, and onTimelineDrag passes each of them to
\* onTimelineClick.  last.x is the pointer's position on the canvas.
InitDrag ==
    /\ gen = DefaultGenerator
    /\ calls = 0
    /\ first = NoCall
    /\ last = [op |-> "none", x |-> TIMELINE_LEFT]
    /\ editor = NewVideoSegmentEditor
    /\ gui = NewGui
    /\ disk = EmptyDisk
    /\ backend = NoBackend
    /\ folders = NoFolders

DragEvent ==
    /\ calls < MaxDragEvents
    /\ calls' = calls + 1
    /\ UNCHANGED <<gen, first, gui, disk, backend, folders>>

OpenLongVideo ==
    /\ DragEvent
    /\ editor.videoCap = "None"
    /\ editor' = LoadVideoAndDisplay(Handling, LongVideoFile, FALSE)
    /\ UNCHANGED last

DragTimeline ==
    /\ DragEvent
    /\ last.x < CanvasWidth - TIMELINE_LEFT
    /\ editor' = OnTimelineClick(Handling, CanvasWidth, last.x + 1)
    /\ last' = [op |-> "onTimelineDrag", x |-> last.x + 1]

NextDrag ==
    \/ OpenLongVideo
    \/ DragTimeline

SpecDrag == InitDrag /\ [][NextDrag]_vars

\* C34: in every reachable state neither frameCache nor imageCache holds more
\* than MAX_CACHE_SIZE entries.
C34_BoundedCaches ==
    /\ Cardinality(editor.frameCache) <= MAX_CACHE_SIZE
    /\ Cardinality(editor.imageCache) <= MAX_CACHE_SIZE

(***************************************************************************)
(* SmokeAnnotationGUI alone: two mini-video folders, each with or without  *)
(* its video file, the first with or without a backup of an earlier        *)
(* session, and the user's marks, arrow keys, folder and mode switches     *)
(* interleaved with the delayed advances.                                  *)
(***************************************************************************)
\* A backup in which the first and the last frame of the folder are
\* annotated and the one between them is not.
SavedAnnotations ==
    <<[frame |-> FolderFrames[1], hasSmoke |-> TRUE],
      [frame |-> FolderFrames[Len(FolderFrames)], hasSmoke |-> FALSE]>>

InitFrames ==
    /\ gen = DefaultGenerator
    /\ calls = 0
    /\ first = NoCall
    /\ last = NoCall
    /\ editor = NewEditor
    /\ gui = NewGui
    /\ \E videos \in SUBSET {MinivideoFolder, SecondMinivideoFolder} :
          disk \in {[EmptyDisk EXCEPT !.videos = videos],
                    [EmptyDisk EXCEPT !.videos = videos,
                                      !.auto_save = Put(@, MinivideoFolder, SavedAnnotations)]}
    /\ backend = NoBackend
    /\ folders = NoFolders

NextFrames ==
    \/ GuiLoadMinivideos
    \/ GuiNextMinivideo
    \/ GuiPreviousMinivideo
    \/ GuiReturnToVideoReview
    \/ GuiStartFrameAnnotation
    \/ GuiMarkSmoke
    \/ GuiMarkNoSmoke
    \/ GuiAdvanceTimer
    \/ GuiAutoAdvanceFrame
    \/ GuiCheckAllFramesAnnotated
    \/ GuiCloseCompleteDialog
    \/ GuiNextFrame
    \/ GuiPreviousFrame

SpecFrames == InitFrames /\ [][NextFrames]_vars

\* C35: within a mini-video (the step keeps the folder and its frame list;
\* a step that loads another folder places the index anew)
\* currentFrameIndex grows only in a step that starts with the frame at
\* the current index annotated, and in frame-annotation mode every frame
\* with an index lower than currentFrameIndex is annotated.
EarlierFramesAnnotated(g) ==
    \A i \in 0..(g.currentFrameIndex - 1) :
        i < Len(g.frameFiles) => Annotated(g.frameAnnotations, FrameFile(g, i))

C35_AnnotateBeforeAdvance ==
    [][/\ (/\ gui'.currentFrameIndex > gui.currentFrameIndex
           /\ Len(gui.frameFiles) > 0
           /\ gui'.frameFiles = gui.frameFiles
           /\ gui'.currentMinivideoFolder = gui.currentMinivideoFolder) =>
              IsCurrentFrameAnnotated(gui)
       /\ gui'.workflowState = "frameAnnotation" => EarlierFramesAnnotated(gui')]_vars

C35_Witness ==
    /\ gui.workflowState = "frameAnnotation"
    /\ gui.currentFrameIndex = Len(gui.frameFiles) - 1
    /\ gui.currentFrameIndex > 0
    /\ gui.timers > 0
    /\ Len(gui.frameAnnotations) = Len(gui.frameFiles)

====
